---- MODULE Spec2Model ----
(***************************************************************************)
(* A model of the Duffel offer-request client (src/src/flights/            *)
(* duffel_api.py) and of the tool handlers that call it (src/src/flights/  *)
(* tools.py).                                                              *)
(*                                                                         *)
(* Every unit of work is one coroutine on the asyncio event loop.  A step  *)
(* of the model is the code a coroutine runs between two awaits; the       *)
(* awaits are the HTTP call, the backoff sleep and the closing of the      *)
(* httpx.AsyncClient context manager.  The clock is in whole seconds.      *)
(***************************************************************************)
EXTENDS Integers, Sequences, FiniteSets, TLC

\* ------------------------------------------------------------------ bounds

\* Invocations started over the whole run.
MaxCalls == 3
\* Clock advances over the whole run.
MaxTicks == 2
\* Invocations started while another one is in flight, over the whole run.
MaxOverlaps == 1

\* ------------------------------------------------------- program constants

\* duffel_api.py:117  "< 300"
TTL == 300
\* duffel_api.py:148
max_retries == 2
\* duffel_api.py:149
retry_delay == 1
\* duffel_api.py:89, tools.py:164
default_supplier_timeout == 15000
\* test_duffel_api.py:105
other_supplier_timeout == 30000
\* duffel_api.py:58  limit: int = 50
default_page_limit == 50
\* duffel_api.py:67  min(limit, 200)
max_page_limit == 200

\* The units of work that may run concurrently on the event loop.
Procs == {"u1", "u2"}
ProcBefore(p, q) == p = "u1" /\ q = "u2"

\* By how much the clock advances the k-th time it does: once by just under
\* the time to live of a cache entry, then second by second.
ClockStep(k) == IF k = 1 THEN 299 ELSE 1

\* Python's None for an optional integer; a supplied integer n is <<n>>.
None == <<>>
Some(n) == <<n>>

\* ------------------------------------------------------------------ inputs

\* tools.py:18-21  TimeRange; None when the caller gives no window.
\* tools.py:23-34  FlightSearch
OneWaySearch ==
    [type |-> "one_way", origin |-> "LHR", destination |-> "JFK",
     departure_date |-> "2025-06-01", return_date |-> None,
     departure_time |-> None, arrival_time |-> None,
     cabin_class |-> "economy", adults |-> 1, max_connections |-> None]

\* tools.py:46-54  MultiCityRequest, with its FlightSegments
TwoLegSearch ==
    [type |-> "multi_city",
     segments |-> << [origin |-> "LHR", destination |-> "JFK",
                      departure_date |-> "2025-06-01"],
                     [origin |-> "JFK", destination |-> "LHR",
                      departure_date |-> "2025-06-08"] >>,
     cabin_class |-> "business", adults |-> 2, max_connections |-> Some(1),
     departure_time |-> None, arrival_time |-> None]

\* An offer id is a string; its characters are kept so that its prefix can be
\* looked at.
OfferIdGood == <<"o", "f", "f", "_", "1">>
OfferIdBad == <<"o", "r", "q", "_", "1">>

\* ------------------------------------------------------- the upstream side

\* One raw offer of the upstream (the formatter reads it, the client does not).
RawOffer == [id |-> "off_1", total_amount |-> "100.00", total_currency |-> "GBP"]

\* What a POST /offer_requests of invocation n can end in: an exception of the
\* transport, or an HTTP response with a status and a body.  The upstream
\* names the offer request it creates; an invocation reads at most one such
\* name, which is modelled by the number of the invocation.
Replies(n) ==
    { [kind |-> "ReadTimeout"],
      [kind |-> "ConnectTimeout"],
      [kind |-> "ConnectError"],
      [kind |-> "response", status |-> 500,
       body |-> [json |-> TRUE, value |-> [errors |-> <<>>]]],
      [kind |-> "response", status |-> 201, body |-> [json |-> FALSE]],
      [kind |-> "response", status |-> 201,
       body |-> [json |-> TRUE, value |-> [data |-> [offers |-> <<>>]]]],
      [kind |-> "response", status |-> 201,
       body |-> [json |-> TRUE, value |-> [data |-> [id |-> n]]]],
      [kind |-> "response", status |-> 201,
       body |-> [json |-> TRUE,
                 value |-> [data |-> [id |-> n, offers |-> <<RawOffer>>]]]] }

\* -------------------------------------------------------------- exceptions

\* A raised exception: its class and its __cause__ (none when it is raised or
\* re-raised as it is).
Raised(cls) == [type |-> cls, cause |-> "None"]

\* json.JSONDecodeError derives from ValueError, the class the code raises for
\* invalid input.
IsValueError(e) == e.type \in {"ValueError", "JSONDecodeError"}

\* ------------------------------------------------------------------- state

VARIABLES
    now,        \* datetime.now(), in seconds
    ticks,      \* clock advances so far
    calls,      \* invocations started so far
    overlaps,   \* those of them started while another one was in flight
    cache,      \* Client._cache: key -> [response, timestamp]
    origin,     \* history: key -> the outbound request that produced cache[key]
    pc,         \* where each unit of work stands
    callNo,     \* which invocation it is running
    tool,       \* the operation invoked and its parameters
    args,       \* the arguments of create_offer_request
    req,        \* the HTTP request it has in flight
    attempt,    \* the loop variable of _create_offer_request
    sent,       \* history: the attempts whose request this invocation issued
    replies,    \* history: what each of them ended in
    slept,      \* history: the delays this invocation slept
    wakeAt,     \* when its backoff sleep is over
    response,   \* what _create_offer_request returned to create_offer_request
    hit,        \* whether create_offer_request was served from the cache
    result,     \* what create_offer_request returned
    output,     \* what the operation invoked returned to its caller
    error,      \* the exception the operation invoked raised to its caller
    probe       \* a function of the program under test: its input and output

clock == <<now, ticks>>
budget == <<calls, overlaps>>
store == <<cache, origin>>
trace == <<sent, replies, slept>>
vars == <<now, ticks, calls, overlaps, cache, origin, pc, callNo, tool, args,
          req, attempt, sent, replies, slept, wakeAt, response, hit, result,
          output, error, probe>>

NoArgs == [none |-> TRUE]
NoValue == [none |-> TRUE]
NoError == Raised("None")

Last(s) == s[Len(s)]

\* ------------------------------------------------- Client (duffel_api.py)

\* Client._cache_key: the MD5 digest of json.dumps(key_data, sort_keys=True).
\* The digest is modelled by the canonical key_data it is computed from (two
\* different canonical texts are taken to have different digests).
cache_key(slices, cabin_class, adult_count) ==
    [slices |-> slices, cabin_class |-> cabin_class, adult_count |-> adult_count]

\* A Python dict as json.dumps sees it: its items in insertion order, each a
\* pair of a key and a value.  A value is a string or a number (Atom), a dict
\* (Dict) or a list (List).
Atom(v) == [atom |-> v]
Dict(items) == [items |-> items]
List(elems) == [elems |-> elems]

\* The keys of the dicts of a search, in the order of their code points, which
\* is the order sort_keys puts them in.
SortedKeys ==
    << "adult_count", "arrival_time", "cabin_class", "departure_date",
       "departure_time", "destination", "from", "origin", "slices", "to" >>
KeyRank(k) == CHOOSE i \in DOMAIN SortedKeys : SortedKeys[i] = k

\* sorted(dict.items()): the item of the least key first.
RECURSIVE SortItems(_)
SortItems(items) ==
    IF items = <<>> THEN <<>>
    ELSE LET i == CHOOSE j \in DOMAIN items :
                      \A k \in DOMAIN items :
                          KeyRank(items[j][1]) <= KeyRank(items[k][1])
         IN <<items[i]>> \o
            SortItems([j \in 1..(Len(items) - 1) |->
                          IF j < i THEN items[j] ELSE items[j + 1]])

\* mutant: json.dumps(obj), the items of every dict in insertion order
RECURSIVE json_dumps_unsorted(_, _)
json_dumps_unsorted(obj, sort_keys) ==
    IF "atom" \in DOMAIN obj THEN <<"atom", obj.atom>>
    ELSE IF "elems" \in DOMAIN obj
    THEN <<"[", [i \in DOMAIN obj.elems |->
                    json_dumps_unsorted(obj.elems[i], sort_keys)], "]">>
    ELSE <<"{", [i \in DOMAIN obj.items |->
                    <<obj.items[i][1],
                      json_dumps_unsorted(obj.items[i][2], sort_keys)>>], "}">>

\* json.dumps(obj, sort_keys=...): the text, as the sequence of what it
\* writes.  Lists keep their order; the items of a dict are written in key
\* order when sort_keys is set and in insertion order otherwise.
RECURSIVE json_dumps(_, _)
json_dumps(obj, sort_keys) ==
    IF "atom" \in DOMAIN obj THEN <<"atom", obj.atom>>
    ELSE IF "elems" \in DOMAIN obj
    THEN <<"[", [i \in DOMAIN obj.elems |->
                    json_dumps(obj.elems[i], sort_keys)], "]">>
    ELSE LET items == IF sort_keys THEN SortItems(obj.items) ELSE obj.items
         IN <<"{", [i \in DOMAIN items |->
                       <<items[i][1], json_dumps(items[i][2], sort_keys)>>],
              "}">>

\* hashlib.md5(text.encode()).hexdigest(): the digest of a text, modelled by
\* the text (different texts are taken to have different digests).
md5_hexdigest(text) == [md5_of |-> text]

\* Client._cache_key on the dicts the caller passes: key_data is built with
\* its three keys in this order and dumped with sort_keys=True.
key_data(slices, cabin_class, adult_count) ==
    Dict(<< <<"slices", List(slices)>>,
            <<"cabin_class", Atom(cabin_class)>>,
            <<"adult_count", Atom(adult_count)>> >>)

cache_key_digest(slices, cabin_class, adult_count) ==
    md5_hexdigest(json_dumps(key_data(slices, cabin_class, adult_count), TRUE))

\* str(return_offers).lower()
StrLower(b) == IF b THEN "true" ELSE "false"

\* [{"type": "adult"} for _ in range(adult_count)]
Passengers(adult_count) == [i \in 1..adult_count |-> [type |-> "adult"]]

\* The request _create_offer_request builds on every attempt: the JSON body
\* and the query parameters.  A max_connections of None is serialised as null.
BuildRequest(slices, cabin_class, adult_count, max_connections, return_offers, supplier_timeout) ==
    [body |-> [data |-> [slices |-> slices,
                         passengers |-> Passengers(adult_count),
                         cabin_class |-> cabin_class,
                         max_connections |-> max_connections]],
     params |-> [return_offers |-> StrLower(return_offers),
                 supplier_timeout |-> supplier_timeout]]

RequestOf(a) ==
    BuildRequest(a.slices, a.cabin_class, a.adult_count, a.max_connections,
                 a.return_offers, a.supplier_timeout)

KeyOf(a) == cache_key(a.slices, a.cabin_class, a.adult_count)

\* mutant: the comparison the wrong way round
CacheFreshInverted(c, key, t) ==
    /\ key \in DOMAIN c
    /\ t - c[key].timestamp > TTL

\* mutant: an entry that is exactly five minutes old still served
CacheFreshInclusive(c, key, t) ==
    /\ key \in DOMAIN c
    /\ t - c[key].timestamp <= TTL

\* The cache check of create_offer_request: the key is in the map and the
\* entry is younger than five minutes.
CacheFresh(c, key, t) ==
    /\ key \in DOMAIN c
    /\ t - c[key].timestamp < TTL

\* mutant: an entry that is there is kept (setdefault)
CachePutIfAbsent(c, key, resp, t) ==
    [k \in DOMAIN c \cup {key} |->
        IF k \in DOMAIN c THEN c[k] ELSE [response |-> resp, timestamp |-> t]]

\* mutant: the response of an entry that is there replaced, its timestamp kept
\* (the timestamp set only when the key is new)
CachePutKeepTime(c, key, resp, t) ==
    [k \in DOMAIN c \cup {key} |->
        IF k # key THEN c[k]
        ELSE [response |-> resp,
              timestamp |-> IF key \in DOMAIN c THEN c[key].timestamp ELSE t]]

\* self._cache[cache_key] = {'response': response, 'timestamp': datetime.now()}
CachePut(c, key, resp, t) ==
    [k \in DOMAIN c \cup {key} |->
        IF k = key THEN [response |-> resp, timestamp |-> t] ELSE c[k]]

\* response.raise_for_status(): anything but a 2xx status raises.
RaisesForStatus(status) == status < 200 \/ status > 299

\* mutant: a body without the id of the offer request taken as a response
\* (data.get("id") for data["id"])
AttemptOutcomeNoId(reply) ==
    IF reply.kind # "response"
    THEN [ok |-> FALSE, exc |-> Raised(reply.kind)]
    ELSE IF RaisesForStatus(reply.status)
    THEN [ok |-> FALSE, exc |-> Raised("HTTPStatusError")]
    ELSE IF ~reply.body.json
    THEN [ok |-> FALSE, exc |-> Raised("JSONDecodeError")]
    ELSE IF "data" \notin DOMAIN reply.body.value
    THEN [ok |-> FALSE, exc |-> Raised("KeyError")]
    ELSE [ok |-> TRUE,
          value |-> [request_id |-> IF "id" \in DOMAIN reply.body.value.data
                                    THEN reply.body.value.data.id
                                    ELSE 0,
                     offers |-> IF "offers" \in DOMAIN reply.body.value.data
                                THEN reply.body.value.data.offers
                                ELSE <<>>]]

\* mutant: a status that is not 2xx read as a body without offers
AttemptOutcomeLenient(reply) ==
    IF reply.kind # "response"
    THEN [ok |-> FALSE, exc |-> Raised(reply.kind)]
    ELSE IF RaisesForStatus(reply.status)
    THEN [ok |-> TRUE, value |-> [request_id |-> 0, offers |-> <<>>]]
    ELSE IF ~reply.body.json
    THEN [ok |-> FALSE, exc |-> Raised("JSONDecodeError")]
    ELSE IF \/ "data" \notin DOMAIN reply.body.value
            \/ "id" \notin DOMAIN reply.body.value.data
    THEN [ok |-> FALSE, exc |-> Raised("KeyError")]
    ELSE [ok |-> TRUE,
          value |-> [request_id |-> reply.body.value.data.id,
                     offers |-> IF "offers" \in DOMAIN reply.body.value.data
                                THEN reply.body.value.data.offers
                                ELSE <<>>]]

\* mutant: the offers of the body passed on as they are, none when the body
\* has none (no default of [] for data["data"].get("offers"))
AttemptOutcomeNoDefault(reply) ==
    IF reply.kind # "response"
    THEN [ok |-> FALSE, exc |-> Raised(reply.kind)]
    ELSE IF RaisesForStatus(reply.status)
    THEN [ok |-> FALSE, exc |-> Raised("HTTPStatusError")]
    ELSE IF ~reply.body.json
    THEN [ok |-> FALSE, exc |-> Raised("JSONDecodeError")]
    ELSE IF \/ "data" \notin DOMAIN reply.body.value
            \/ "id" \notin DOMAIN reply.body.value.data
    THEN [ok |-> FALSE, exc |-> Raised("KeyError")]
    ELSE [ok |-> TRUE,
          value |-> IF "offers" \in DOMAIN reply.body.value.data
                    THEN [request_id |-> reply.body.value.data.id,
                          offers |-> reply.body.value.data.offers]
                    ELSE [request_id |-> reply.body.value.data.id]]

\* One pass through the try block of _create_offer_request, given how the
\* POST ended: the value returned, or the exception raised.
AttemptOutcome(reply) ==
    IF reply.kind # "response"
    THEN [ok |-> FALSE, exc |-> Raised(reply.kind)]
    ELSE IF RaisesForStatus(reply.status)
    THEN [ok |-> FALSE, exc |-> Raised("HTTPStatusError")]
    ELSE IF ~reply.body.json
    THEN [ok |-> FALSE, exc |-> Raised("JSONDecodeError")]
    ELSE IF \/ "data" \notin DOMAIN reply.body.value
            \/ "id" \notin DOMAIN reply.body.value.data
    THEN [ok |-> FALSE, exc |-> Raised("KeyError")]
    ELSE [ok |-> TRUE,
          value |-> [request_id |-> reply.body.value.data.id,
                     offers |-> IF "offers" \in DOMAIN reply.body.value.data
                                THEN reply.body.value.data.offers
                                ELSE <<>>]]

\* mutant: every timeout of the transport retried (except httpx.TimeoutException)
RetriesAfterAnyTimeout(exc, att) ==
    exc.type \in {"ReadTimeout", "ConnectTimeout"} /\ att # max_retries - 1

\* mutant: the last attempt's read timeout not re-raised
RetriesAlways(exc, att) == exc.type = "ReadTimeout"

\* except httpx.ReadTimeout: retried unless this was the last attempt.
RetriesAfter(exc, att) == exc.type = "ReadTimeout" /\ att # max_retries - 1

\* mutant: the exception wrapped in one of the client's own (raise ... from e)
RaiseWrapped(exc) == [type |-> "UpstreamError", cause |-> exc.type]

\* What the except clauses of _create_offer_request and create_offer_request
\* hand to the caller: the exception itself (a bare raise).
Reraise(exc) == exc

\* Client.get_offer / get_seat_map: offer_id.startswith("off_")
OfferPrefix == <<"o", "f", "f", "_">>

\* mutant: the prefix but for its last character ("off")
StartsWithShort(str, prefix) ==
    /\ Len(str) >= Len(prefix) - 1
    /\ SubSeq(str, 1, Len(prefix) - 1) = SubSeq(prefix, 1, Len(prefix) - 1)

\* str.startswith(prefix)
StartsWith(str, prefix) ==
    /\ Len(str) >= Len(prefix)
    /\ SubSeq(str, 1, Len(prefix)) = prefix

\* mutant: the limit as the caller gave it
PageLimitUncapped(limit) == limit

\* Client.list_offer_requests: min(limit, 200)
PageLimit(limit) == IF limit < max_page_limit THEN limit ELSE max_page_limit

\* Client.list_offer_requests, lines 61-67: the query parameters.  after,
\* before and limit are left out when they are falsy: None, the empty string,
\* zero.
ListParams(after, before, limit) ==
    [k \in { x \in {"after"} : after # None /\ after # <<"">> }
           \cup { x \in {"before"} : before # None /\ before # <<"">> }
           \cup { x \in {"limit"} : limit # 0 } |->
        IF k = "after" THEN after[1]
        ELSE IF k = "before" THEN before[1]
        ELSE PageLimit(limit)]

\* mutant: a read timeout of a GET retried as that of the POST is
GetRetriesOnReadTimeout(exc, att) ==
    exc.type = "ReadTimeout" /\ att # max_retries - 1

\* except Exception: ... raise, the only except clause of list_offer_requests,
\* get_offer_request, get_offer and get_seat_map: there is no loop and no
\* clause for httpx.ReadTimeout, so no exception of attempt att is retried.
GetRetriesAfter(exc, att) == FALSE

\* One pass through the try block of get_offer, given how the GET ended.
GetOutcome(reply) ==
    IF reply.kind # "response"
    THEN [ok |-> FALSE, exc |-> Raised(reply.kind)]
    ELSE IF RaisesForStatus(reply.status)
    THEN [ok |-> FALSE, exc |-> Raised("HTTPStatusError")]
    ELSE IF ~reply.body.json
    THEN [ok |-> FALSE, exc |-> Raised("JSONDecodeError")]
    ELSE [ok |-> TRUE, value |-> reply.body.value]

\* ------------------------------------------------ tool handlers (tools.py)

\* The full-day window of _create_slice.
FullDay == [from |-> "00:00", to |-> "23:59"]

\* mutant: the time ranges of the caller not looked at
create_slice_full_day(origin_, destination, date, departure_time, arrival_time) ==
    [origin |-> origin_, destination |-> destination, departure_date |-> date,
     departure_time |-> FullDay, arrival_time |-> FullDay]

\* _create_slice: a time range that is given replaces the full-day window.
create_slice(origin_, destination, date, departure_time, arrival_time) ==
    [origin |-> origin_, destination |-> destination, departure_date |-> date,
     departure_time |-> IF departure_time # None
                        THEN [from |-> departure_time[1].from_time,
                              to |-> departure_time[1].to_time]
                        ELSE FullDay,
     arrival_time |-> IF arrival_time # None
                      THEN [from |-> arrival_time[1].from_time,
                            to |-> arrival_time[1].to_time]
                      ELSE FullDay]

\* mutant: a round trip without a return date searched as the outbound leg
BuildSlicesNoReturnCheck(params) ==
    IF params.type \in {"one_way", "round_trip"}
    THEN [ok |-> TRUE,
          slices |-> << create_slice(params.origin, params.destination,
                                     params.departure_date,
                                     params.departure_time,
                                     params.arrival_time) >>
                     \o IF params.type = "one_way" \/ params.return_date = None
                        THEN <<>>
                        ELSE << create_slice(params.destination, params.origin,
                                             params.return_date[1],
                                             params.departure_time,
                                             params.arrival_time) >>]
    ELSE IF params.type = "multi_city"
    THEN [ok |-> FALSE, exc |-> Raised("AttributeError")]
    ELSE [ok |-> TRUE, slices |-> <<>>]

\* search_flights, lines 92-155: the slices of a search, or the exception the
\* branch raises.  FlightSearch has no field additional_stops, so reading it
\* in the multi_city branch raises AttributeError; a type that is none of the
\* three leaves the list empty.
BuildSlices(params) ==
    IF params.type = "one_way"
    THEN [ok |-> TRUE,
          slices |-> << create_slice(params.origin, params.destination,
                                     params.departure_date,
                                     params.departure_time,
                                     params.arrival_time) >>]
    ELSE IF params.type = "round_trip"
    THEN IF params.return_date = None
         THEN [ok |-> FALSE, exc |-> Raised("ValueError")]
         ELSE [ok |-> TRUE,
               slices |-> << create_slice(params.origin, params.destination,
                                          params.departure_date,
                                          params.departure_time,
                                          params.arrival_time),
                             create_slice(params.destination, params.origin,
                                          params.return_date[1],
                                          params.departure_time,
                                          params.arrival_time) >>]
    ELSE IF params.type = "multi_city"
    THEN [ok |-> FALSE, exc |-> Raised("AttributeError")]
    ELSE [ok |-> TRUE, slices |-> <<>>]

\* search_multi_city, lines 239-247: one full-day slice per segment.
MultiCitySlices(params) ==
    [i \in 1..Len(params.segments) |->
        create_slice(params.segments[i].origin, params.segments[i].destination,
                     params.segments[i].departure_date, None, None)]

\* What search_flights and search_multi_city pass to create_offer_request.
SearchArgs(slices, params) ==
    [slices |-> slices, cabin_class |-> params.cabin_class,
     adult_count |-> params.adults, max_connections |-> params.max_connections,
     return_offers |-> TRUE, supplier_timeout |-> default_supplier_timeout]

\* dict.get(key) and dict.get(key, default); JSON null for Python's None.
Null == "null"
EmptyDict == <<>>
Get(d, k) == IF k \in DOMAIN d THEN d[k] ELSE Null
GetOr(d, k, default) == IF k \in DOMAIN d THEN d[k] ELSE default

\* mutant: one offer more than the limit ([:limit + 1])
TakeOneMore(seq, n) == SubSeq(seq, 1, IF Len(seq) < n + 1 THEN Len(seq) ELSE n + 1)

\* The offers a search tool formats: response.get('offers', [])[:limit]
search_flights_limit == 50
search_multi_city_limit == 10

Take(seq, n) == SubSeq(seq, 1, IF Len(seq) < n THEN Len(seq) ELSE n)

\* mutant: a connection described by the segment that arrives, not by the
\* pair of segments around it
FormatSliceOneSegment(slice) ==
    LET segments == slice.segments
        n == Len(segments)
    IN [origin |-> slice.origin.iata_code,
        destination |-> slice.destination.iata_code,
        departure |-> Get(segments[1], "departing_at"),
        arrival |-> Get(segments[n], "arriving_at"),
        duration |-> Get(slice, "duration"),
        carrier |-> Get(GetOr(segments[1], "marketing_carrier", EmptyDict),
                        "name"),
        connections |->
            [i \in 1..(n - 1) |->
                [airport |-> Get(GetOr(segments[i], "destination", EmptyDict),
                                 "iata_code"),
                 arrival |-> Get(segments[i], "arriving_at"),
                 departure |-> Get(segments[i], "departing_at"),
                 duration |-> Get(segments[i], "duration")]]]

\* Lines 188-207: the details of a slice that has segments.
FormatSlice(slice) ==
    LET segments == slice.segments
        n == Len(segments)
    IN [origin |-> slice.origin.iata_code,
        destination |-> slice.destination.iata_code,
        departure |-> Get(segments[1], "departing_at"),
        arrival |-> Get(segments[n], "arriving_at"),
        duration |-> Get(slice, "duration"),
        carrier |-> Get(GetOr(segments[1], "marketing_carrier", EmptyDict),
                        "name"),
        connections |->
            [i \in 1..(n - 1) |->
                [airport |-> Get(GetOr(segments[i], "destination", EmptyDict),
                                 "iata_code"),
                 arrival |-> Get(segments[i], "arriving_at"),
                 departure |-> Get(segments[i + 1], "departing_at"),
                 duration |-> Get(segments[i + 1], "duration")]]]

\* if segments: the slices that are formatted at all.
HasSegments(slice) == GetOr(slice, "segments", <<>>) # <<>>

\* mutant: the loop over the slices left at the first one without segments
\* (break for skipping it)
RECURSIVE FormatSlicesBreak(_)
FormatSlicesBreak(slices) ==
    IF slices = <<>> THEN <<>>
    ELSE IF HasSegments(Head(slices))
    THEN <<FormatSlice(Head(slices))>> \o FormatSlicesBreak(Tail(slices))
    ELSE <<>>

\* Lines 185-209: the slices of an offer, those without segments left out.
RECURSIVE FormatSlices(_)
FormatSlices(slices) ==
    IF slices = <<>> THEN <<>>
    ELSE IF HasSegments(Head(slices))
    THEN <<FormatSlice(Head(slices))>> \o FormatSlices(Tail(slices))
    ELSE FormatSlices(Tail(slices))

\* slice['origin']['iata_code'] and slice['destination']['iata_code'] raise
\* KeyError when the slice lacks them.
SliceRaises(slice) ==
    /\ HasSegments(slice)
    /\ \/ "origin" \notin DOMAIN slice
       \/ "destination" \notin DOMAIN slice
       \/ "iata_code" \notin DOMAIN slice.origin
       \/ "iata_code" \notin DOMAIN slice.destination

\* Lines 175-211: the details of one offer.
FormatOffer(offer) ==
    [offer_id |-> Get(offer, "id"),
     price |-> [amount |-> Get(offer, "total_amount"),
                currency |-> Get(offer, "total_currency")],
     slices |-> FormatSlices(GetOr(offer, "slices", <<>>))]

OfferRaises(offer) ==
    \E i \in DOMAIN GetOr(offer, "slices", <<>>) :
        SliceRaises(GetOr(offer, "slices", <<>>)[i])

\* json.dumps(value, indent=2): the text of a value, here the value it is the
\* text of.
JsonDumps(value) == [json_text_of |-> value]

\* Lines 167-213 and 259-305: what a search tool makes of the response of
\* create_offer_request: the JSON text it returns or the exception it raises.
\* A response of None (NoValue) cannot be subscripted.
FormatResponse(resp, limit) ==
    IF resp = NoValue
    THEN [ok |-> FALSE, exc |-> Raised("TypeError")]
    ELSE LET offers == Take(GetOr(resp, "offers", <<>>), limit) IN
         IF \E i \in DOMAIN offers : OfferRaises(offers[i])
         THEN [ok |-> FALSE, exc |-> Raised("KeyError")]
         ELSE [ok |-> TRUE,
               text |-> JsonDumps(
                   [request_id |-> resp.request_id,
                    offers |-> [i \in DOMAIN offers |-> FormatOffer(offers[i])]])]

\* What the caller of the unit of work gets once create_offer_request has
\* returned resp: the response itself from the client, the formatted JSON
\* text (or the formatter's exception) from a search tool.
ToolReturn(t, resp) ==
    IF t.tool = "search_flights" THEN FormatResponse(resp, search_flights_limit)
    ELSE IF t.tool = "search_multi_city"
    THEN FormatResponse(resp, search_multi_city_limit)
    ELSE [ok |-> TRUE, text |-> resp]

\* ------------------------------------------------------------ invocations

\* tools.py:18-21  TimeRange
Morning == [from_time |-> "06:00", to_time |-> "11:30"]
Evening == [from_time |-> "17:00", to_time |-> "23:00"]

\* Round trips: a return date and no windows, a return date and both windows,
\* and no return date.
RoundTripSearch ==
    [type |-> "round_trip", origin |-> "LHR", destination |-> "JFK",
     departure_date |-> "2025-06-01", return_date |-> <<"2025-06-08">>,
     departure_time |-> None, arrival_time |-> None,
     cabin_class |-> "economy", adults |-> 1, max_connections |-> None]

RoundTripWindows ==
    [RoundTripSearch EXCEPT !.origin = "CDG", !.destination = "NRT",
                            !.departure_time = <<Morning>>,
                            !.arrival_time = <<Evening>>]

RoundTripOneWindow ==
    [RoundTripSearch EXCEPT !.origin = "SFO", !.departure_time = <<Evening>>]

RoundTripNoReturn == [RoundTripSearch EXCEPT !.return_date = None]

\* The client called directly, as the tests do: the search of OneWaySearch,
\* non-stop only and with other query parameters.
DirectArgs ==
    [slices |-> BuildSlices(OneWaySearch).slices, cabin_class |-> "economy",
     adult_count |-> 1, max_connections |-> Some(0), return_offers |-> FALSE,
     supplier_timeout |-> other_supplier_timeout]

Invocations ==
    { [tool |-> "search_flights", params |-> OneWaySearch],
      [tool |-> "search_multi_city", params |-> TwoLegSearch],
      [tool |-> "create_offer_request", params |-> DirectArgs],
      [tool |-> "get_offer_details", params |-> [offer_id |-> OfferIdGood]],
      [tool |-> "get_offer_details", params |-> [offer_id |-> OfferIdBad]],
      [tool |-> "search_flights", params |-> RoundTripNoReturn] }

TypeOK ==
    /\ now \in Nat /\ ticks \in 0..MaxTicks
    /\ calls \in 0..MaxCalls /\ overlaps \in 0..MaxOverlaps
    /\ \A p \in Procs :
         /\ pc[p] \in {"idle", "http", "sleep", "closing", "get", "done",
                       "failed"}
         /\ callNo[p] \in 0..MaxCalls
         /\ attempt[p] \in 0..max_retries
         /\ hit[p] \in BOOLEAN

\* Client.__init__: an empty cache; no unit of work has started.
Idle ==
    /\ now = 0 /\ ticks = 0 /\ calls = 0 /\ overlaps = 0
    /\ cache = <<>>
    /\ origin = <<>>
    /\ pc = [p \in Procs |-> "idle"]
    /\ callNo = [p \in Procs |-> 0]
    /\ tool = [p \in Procs |-> NoValue]
    /\ args = [p \in Procs |-> NoArgs]
    /\ req = [p \in Procs |-> NoValue]
    /\ attempt = [p \in Procs |-> 0]
    /\ sent = [p \in Procs |-> <<>>]
    /\ replies = [p \in Procs |-> <<>>]
    /\ slept = [p \in Procs |-> <<>>]
    /\ wakeAt = [p \in Procs |-> 0]
    /\ response = [p \in Procs |-> NoValue]
    /\ hit = [p \in Procs |-> FALSE]
    /\ result = [p \in Procs |-> NoValue]
    /\ output = [p \in Procs |-> NoValue]
    /\ error = [p \in Procs |-> NoError]

Init == Idle /\ probe = NoValue

\* mutant: an await between the store and the return (the caller resumes
\* only after other units of work have run)
ReturningSuspends == FALSE

\* A unit of work is handing its result or its exception to its caller.  A
\* return and a raise do not suspend: no other unit of work runs before the
\* caller has it.
Returning == \E p \in Procs : pc[p] \in {"done", "failed"}

\* The units of work are interchangeable: a new invocation takes the first
\* one that is free.
FirstFree(p) == \A q \in Procs : pc[q] = "idle" => ~ProcBefore(q, p)

\* A caller invokes operation t: the unit of work p starts.
Begin(p, t) ==
    /\ ~Returning
    /\ pc[p] = "idle"
    /\ FirstFree(p)
    /\ calls < MaxCalls
    /\ calls' = calls + 1
    /\ IF \E q \in Procs : pc[q] # "idle"
       THEN overlaps < MaxOverlaps /\ overlaps' = overlaps + 1
       ELSE UNCHANGED overlaps
    /\ callNo' = [callNo EXCEPT ![p] = calls + 1]
    /\ tool' = [tool EXCEPT ![p] = t]

\* The operation t raises exc to its caller (its except clause logs and
\* re-raises).
Raise(p, exc) ==
    /\ error' = [error EXCEPT ![p] = exc]
    /\ pc' = [pc EXCEPT ![p] = "failed"]

\* create_offer_request returns resp to operation t, which returns or raises
\* in turn.
Return(p, t, resp) ==
    /\ result' = [result EXCEPT ![p] = resp]
    /\ LET r == ToolReturn(t, resp) IN
       IF r.ok
       THEN /\ output' = [output EXCEPT ![p] = r.text]
            /\ pc' = [pc EXCEPT ![p] = "done"]
            /\ UNCHANGED error
       ELSE /\ Raise(p, r.exc)
            /\ UNCHANGED output

\* client.post(...): the POST of attempt att goes out.
IssuePost(p, a, att) ==
    /\ req' = [req EXCEPT ![p] = RequestOf(a)]
    /\ sent' = [sent EXCEPT ![p] = Append(@, att)]
    /\ pc' = [pc EXCEPT ![p] = "http"]

\* mutant: a hit counted as a use of the entry, its timestamp set to the time
\* of the hit (cached_data['timestamp'] = datetime.now())
create_offer_request_touching(p, t, a) ==
    /\ args' = [args EXCEPT ![p] = a]
    /\ IF CacheFresh(cache, KeyOf(a), now)
       THEN /\ hit' = [hit EXCEPT ![p] = TRUE]
            /\ Return(p, t, cache[KeyOf(a)].response)
            /\ cache' = [cache EXCEPT ![KeyOf(a)].timestamp = now]
            /\ UNCHANGED <<req, sent>>
       ELSE /\ hit' = [hit EXCEPT ![p] = FALSE]
            /\ IssuePost(p, a, 0)
            /\ UNCHANGED <<cache, result, output, error>>
    /\ UNCHANGED <<probe, clock, origin, attempt, replies, slept, wakeAt, response>>

\* create_offer_request up to its first await: the key, the cache check and,
\* on a miss, the first POST of _create_offer_request.
create_offer_request(p, t, a) ==
    /\ args' = [args EXCEPT ![p] = a]
    /\ IF CacheFresh(cache, KeyOf(a), now)
       THEN /\ hit' = [hit EXCEPT ![p] = TRUE]
            /\ Return(p, t, cache[KeyOf(a)].response)
            /\ UNCHANGED <<req, sent>>
       ELSE /\ hit' = [hit EXCEPT ![p] = FALSE]
            /\ IssuePost(p, a, 0)
            /\ UNCHANGED <<result, output, error>>
    /\ UNCHANGED <<probe, clock, store, attempt, replies, slept, wakeAt, response>>

\* Client.create_offer_request called by the caller itself.
call_client(p, t) ==
    /\ t.tool = "create_offer_request"
    /\ Begin(p, t)
    /\ create_offer_request(p, t, t.params)

\* The texts of the times that callers give, each with its characters: the
\* times of Morning and Evening, times of two digits an hour, times of one
\* digit an hour, and texts that are out of range or not of the form at all.
TimeChars ==
       ("06:00" :> <<"0", "6", ":", "0", "0">>)
    @@ ("11:30" :> <<"1", "1", ":", "3", "0">>)
    @@ ("17:00" :> <<"1", "7", ":", "0", "0">>)
    @@ ("23:00" :> <<"2", "3", ":", "0", "0">>)
    @@ ("00:00" :> <<"0", "0", ":", "0", "0">>)
    @@ ("23:59" :> <<"2", "3", ":", "5", "9">>)
    @@ ("09:45" :> <<"0", "9", ":", "4", "5">>)
    @@ ("19:59" :> <<"1", "9", ":", "5", "9">>)
    @@ ("20:00" :> <<"2", "0", ":", "0", "0">>)
    @@ ("9:45" :> <<"9", ":", "4", "5">>)
    @@ ("0:00" :> <<"0", ":", "0", "0">>)
    @@ ("2:00" :> <<"2", ":", "0", "0">>)
    @@ ("7:07" :> <<"7", ":", "0", "7">>)
    @@ ("24:00" :> <<"2", "4", ":", "0", "0">>)
    @@ ("29:00" :> <<"2", "9", ":", "0", "0">>)
    @@ ("30:00" :> <<"3", "0", ":", "0", "0">>)
    @@ ("12:60" :> <<"1", "2", ":", "6", "0">>)
    @@ ("23:60" :> <<"2", "3", ":", "6", "0">>)
    @@ ("12:5" :> <<"1", "2", ":", "5">>)
    @@ ("1:5" :> <<"1", ":", "5">>)
    @@ ("123:00" :> <<"1", "2", "3", ":", "0", "0">>)
    @@ ("12:000" :> <<"1", "2", ":", "0", "0", "0">>)
    @@ ("12-30" :> <<"1", "2", "-", "3", "0">>)
    @@ ("1230" :> <<"1", "2", "3", "0">>)
    @@ ("" :> <<>>)
    @@ (":30" :> <<":", "3", "0">>)
    @@ ("12:" :> <<"1", "2", ":">>)
    @@ ("ab:cd" :> <<"a", "b", ":", "c", "d">>)
    @@ (" 9:45" :> <<" ", "9", ":", "4", "5">>)
    @@ ("09:45 " :> <<"0", "9", ":", "4", "5", " ">>)
    @@ ("-1:00" :> <<"-", "1", ":", "0", "0">>)

\* The characters of a text.
Chars(text) == TimeChars[text]

Digits == {"0", "1", "2", "3", "4", "5", "6", "7", "8", "9"}

\* tools.py:20-21  pattern="^([0-1]?[0-9]|2[0-3]):[0-5][0-9]$" on the
\* characters of a text: an hour that is one digit, or 0 or 1 and a digit, or
\* 2 and one of 0 to 3; a colon; a minute that is one of 0 to 5 and a digit;
\* and nothing before or after.
MatchesTimePattern(s) ==
    LET n == Len(s)
        hour == SubSeq(s, 1, n - 3)
    IN /\ n \in {4, 5}
       /\ \/ Len(hour) = 1 /\ hour[1] \in Digits
          \/ Len(hour) = 2 /\ hour[1] \in {"0", "1"} /\ hour[2] \in Digits
          \/ Len(hour) = 2 /\ hour[1] = "2" /\ hour[2] \in {"0", "1", "2", "3"}
       /\ s[n - 2] = ":"
       /\ s[n - 1] \in {"0", "1", "2", "3", "4", "5"}
       /\ s[n] \in Digits

\* TimeRange: both bounds of a time range that is given match the pattern.
ValidTimeRange(range) ==
    range # None
    => /\ MatchesTimePattern(Chars(range[1].from_time))
       /\ MatchesTimePattern(Chars(range[1].to_time))

\* tools.py:30-31  FlightSearch.departure_time, arrival_time: the framework
\* parses the arguments into a FlightSearch before it calls the handler, and
\* that fails on a time range whose bound does not match.
ValidFlightSearch(params) ==
    /\ ValidTimeRange(params.departure_time)
    /\ ValidTimeRange(params.arrival_time)

\* tools.py search_flights, up to the first await.
search_flights(p, t) ==
    /\ t.tool = "search_flights"
    /\ Begin(p, t)
    /\ LET b == IF ValidFlightSearch(t.params)
                THEN BuildSlices(t.params)
                ELSE [ok |-> FALSE, exc |-> Raised("ValidationError")] IN
       IF b.ok
       THEN create_offer_request(p, t, SearchArgs(b.slices, t.params))
       ELSE /\ Raise(p, b.exc)
            /\ UNCHANGED <<probe, clock, store, args, req, attempt, trace, wakeAt,
                           response, hit, result, output>>

\* tools.py:49  segments: List[FlightSegment] = Field(..., min_items=2): the
\* framework parses the arguments into a MultiCityRequest before it calls the
\* handler, and that fails on fewer than two segments, and (tools.py:53-54)
\* on a time range whose bound does not match the pattern.
ValidMultiCityRequest(params) ==
    /\ Len(params.segments) >= 2
    /\ ValidTimeRange(params.departure_time)
    /\ ValidTimeRange(params.arrival_time)

\* tools.py search_multi_city, up to the first await.
search_multi_city(p, t) ==
    /\ t.tool = "search_multi_city"
    /\ Begin(p, t)
    /\ IF ValidMultiCityRequest(t.params)
       THEN create_offer_request(p, t, SearchArgs(MultiCitySlices(t.params),
                                                  t.params))
       ELSE /\ Raise(p, Raised("ValidationError"))
            /\ UNCHANGED <<probe, clock, store, args, req, attempt, trace,
                           wakeAt, response, hit, result, output>>

\* tools.py get_offer_details and Client.get_offer, up to the await: the
\* prefix of the id is checked, then the GET goes out.
get_offer_details(p, t) ==
    /\ t.tool = "get_offer_details"
    /\ Begin(p, t)
    /\ IF StartsWith(t.params.offer_id, OfferPrefix)
       THEN /\ req' = [req EXCEPT
                         ![p] = [method |-> "GET", path |-> "/offers/",
                                 id |-> t.params.offer_id]]
            /\ sent' = [sent EXCEPT ![p] = Append(@, 0)]
            /\ pc' = [pc EXCEPT ![p] = "get"]
            /\ UNCHANGED error
       ELSE /\ Raise(p, Raised("ValueError"))
            /\ UNCHANGED <<req, sent>>
    /\ UNCHANGED <<probe, clock, store, args, attempt, replies, slept, wakeAt,
                   response, hit, result, output>>

\* client.get(...): the GET goes out.
IssueGet(p, request) ==
    /\ req' = [req EXCEPT ![p] = request]
    /\ sent' = [sent EXCEPT ![p] = Append(@, Len(@))]
    /\ pc' = [pc EXCEPT ![p] = "get"]

\* Client.get_seat_map, up to the await: the prefix check of get_offer, then
\* GET /seat_maps?offer_id=...
get_seat_map(p, t) ==
    /\ t.tool = "get_seat_map"
    /\ Begin(p, t)
    /\ IF StartsWith(t.params.offer_id, OfferPrefix)
       THEN /\ IssueGet(p, [method |-> "GET", path |-> "/seat_maps",
                            id |-> t.params.offer_id,
                            params |-> [offer_id |-> t.params.offer_id]])
            /\ UNCHANGED error
       ELSE /\ Raise(p, Raised("ValueError"))
            /\ UNCHANGED <<req, sent>>
    /\ UNCHANGED <<probe, clock, store, args, attempt, replies, slept, wakeAt,
                   response, hit, result, output>>

\* Client.get_offer_request, up to the await: GET /offer_requests/{id}, the
\* id as it is.
get_offer_request(p, t) ==
    /\ t.tool = "get_offer_request"
    /\ Begin(p, t)
    /\ IssueGet(p, [method |-> "GET", path |-> "/offer_requests/",
                    id |-> t.params.request_id])
    /\ UNCHANGED <<probe, clock, store, args, attempt, replies, slept, wakeAt,
                   response, hit, result, output, error>>

\* Client.list_offer_requests, up to the await: GET /offer_requests with the
\* query parameters.
list_offer_requests(p, t) ==
    /\ t.tool = "list_offer_requests"
    /\ Begin(p, t)
    /\ IssueGet(p, [method |-> "GET", path |-> "/offer_requests", id |-> <<>>,
                    params |-> ListParams(t.params.after, t.params.before,
                                          t.params.limit)])
    /\ UNCHANGED <<probe, clock, store, args, attempt, replies, slept, wakeAt,
                   response, hit, result, output, error>>

\* What the POST that p has in flight can end in.
RepliesTo(p) == Replies(callNo[p])

\* The POST in flight ends; the rest of the try block and the except clauses.
post_completes(p, reply) ==
    /\ ~Returning
    /\ pc[p] = "http"
    /\ LET o == AttemptOutcome(reply) IN
       /\ replies' = [replies EXCEPT ![p] = Append(@, reply)]
       /\ IF o.ok
          THEN /\ response' = [response EXCEPT ![p] = o.value]
               /\ pc' = [pc EXCEPT ![p] = "closing"]
               /\ UNCHANGED <<slept, wakeAt, error>>
          ELSE IF RetriesAfter(o.exc, attempt[p])
          THEN /\ slept' = [slept EXCEPT ![p] = Append(@, retry_delay)]
               /\ wakeAt' = [wakeAt EXCEPT ![p] = now + retry_delay]
               /\ pc' = [pc EXCEPT ![p] = "sleep"]
               /\ UNCHANGED <<response, error>>
          ELSE /\ Raise(p, Reraise(o.exc))
               /\ UNCHANGED <<slept, wakeAt, response>>
    /\ req' = [req EXCEPT ![p] = NoValue]
    /\ UNCHANGED <<probe, clock, budget, store, callNo, tool, args, attempt, sent,
                   hit, result, output>>

\* asyncio.sleep(retry_delay) is over: the for loop takes its next attempt,
\* or ends when there is none (the function then returns None).
backoff_over(p) ==
    /\ ~Returning
    /\ pc[p] = "sleep"
    /\ now >= wakeAt[p]
    /\ attempt' = [attempt EXCEPT ![p] = @ + 1]
    /\ IF attempt[p] + 1 < max_retries
       THEN /\ IssuePost(p, args[p], attempt[p] + 1)
            /\ UNCHANGED response
       ELSE /\ response' = [response EXCEPT ![p] = NoValue]
            /\ pc' = [pc EXCEPT ![p] = "closing"]
            /\ UNCHANGED <<req, sent>>
    /\ UNCHANGED <<probe, clock, budget, store, callNo, tool, args, replies, slept,
                   wakeAt, hit, result, output, error>>

\* The AsyncClient is closed and _create_offer_request has returned: the
\* response is cached under the key and returned.
store_and_return(p) ==
    /\ ~Returning
    /\ pc[p] = "closing"
    /\ cache' = CachePut(cache, KeyOf(args[p]), response[p], now)
    /\ origin' = [k \in DOMAIN origin \cup {KeyOf(args[p])} |->
                    IF k = KeyOf(args[p]) THEN RequestOf(args[p]) ELSE origin[k]]
    /\ Return(p, tool[p], response[p])
    /\ UNCHANGED <<probe, clock, budget, callNo, tool, args, req, attempt, trace,
                   wakeAt, response, hit>>

\* What the GET that p has in flight can end in.
GetReplies(p) ==
    { [kind |-> "ReadTimeout"],
      [kind |-> "response", status |-> 404,
       body |-> [json |-> TRUE, value |-> [errors |-> <<>>]]],
      [kind |-> "response", status |-> 200, body |-> [json |-> FALSE]],
      [kind |-> "response", status |-> 200,
       body |-> [json |-> TRUE, value |-> [data |-> [id |-> req[p].id]]]] }

\* The GET of a passthrough ends: the client returns the parsed body, which
\* get_offer_details returns as JSON text, or the exception goes to the
\* caller.
get_completes(p, reply) ==
    /\ ~Returning
    /\ pc[p] = "get"
    /\ LET o == GetOutcome(reply) IN
       /\ replies' = [replies EXCEPT ![p] = Append(@, reply)]
       /\ IF o.ok
          THEN /\ output' = [output EXCEPT
                               ![p] = IF tool[p].tool = "get_offer_details"
                                      THEN JsonDumps(o.value) ELSE o.value]
               /\ pc' = [pc EXCEPT ![p] = "done"]
               /\ req' = [req EXCEPT ![p] = NoValue]
               /\ UNCHANGED <<error, sent>>
          ELSE IF GetRetriesAfter(o.exc, Len(sent[p]) - 1)
          THEN /\ IssueGet(p, req[p])
               /\ UNCHANGED <<error, output>>
          ELSE /\ Raise(p, Reraise(o.exc))
               /\ req' = [req EXCEPT ![p] = NoValue]
               /\ UNCHANGED <<output, sent>>
    /\ UNCHANGED <<probe, clock, budget, store, callNo, tool, args, attempt,
                   slept, wakeAt, response, hit, result>>

\* The caller has taken the result or the exception; the coroutine is gone.
finish(p) ==
    /\ pc[p] \in {"done", "failed"}
    /\ pc' = [pc EXCEPT ![p] = "idle"]
    /\ callNo' = [callNo EXCEPT ![p] = 0]
    /\ tool' = [tool EXCEPT ![p] = NoValue]
    /\ args' = [args EXCEPT ![p] = NoArgs]
    /\ req' = [req EXCEPT ![p] = NoValue]
    /\ attempt' = [attempt EXCEPT ![p] = 0]
    /\ sent' = [sent EXCEPT ![p] = <<>>]
    /\ replies' = [replies EXCEPT ![p] = <<>>]
    /\ slept' = [slept EXCEPT ![p] = <<>>]
    /\ wakeAt' = [wakeAt EXCEPT ![p] = 0]
    /\ response' = [response EXCEPT ![p] = NoValue]
    /\ hit' = [hit EXCEPT ![p] = FALSE]
    /\ result' = [result EXCEPT ![p] = NoValue]
    /\ output' = [output EXCEPT ![p] = NoValue]
    /\ error' = [error EXCEPT ![p] = NoError]
    /\ UNCHANGED <<probe, clock, budget, store>>

\* Time passes.
Tick ==
    /\ ~Returning
    /\ ticks < MaxTicks
    /\ now' = now + ClockStep(ticks + 1)
    /\ ticks' = ticks + 1
    /\ UNCHANGED <<probe, budget, store, pc, callNo, tool, args, req, attempt, trace,
                   wakeAt, response, hit, result, output, error>>

Next ==
    \/ \E p \in Procs : \E t \in Invocations : call_client(p, t)
    \/ \E p \in Procs : \E t \in Invocations : search_flights(p, t)
    \/ \E p \in Procs : \E t \in Invocations : search_multi_city(p, t)
    \/ \E p \in Procs : \E t \in Invocations : get_offer_details(p, t)
    \/ \E p \in Procs : \E r \in RepliesTo(p) : post_completes(p, r)
    \/ \E p \in Procs : backoff_over(p)
    \/ \E p \in Procs : store_and_return(p)
    \/ \E p \in Procs : pc[p] = "get" /\ \E r \in GetReplies(p) : get_completes(p, r)
    \/ \E p \in Procs : finish(p)
    \/ Tick

Spec == Init /\ [][Next]_vars

\* ------------------------------------- the search tools, one call at a time

\* A one-way search with a window.
OneWayWindow == [OneWaySearch EXCEPT !.arrival_time = <<Morning>>]

\* A FlightSearch of type multi_city.  The caller sent additional_stops with
\* it; FlightSearch declares no such field (tools.py:23-34), so the parsed
\* params do not have it.  It is kept here as what the caller supplied.
MultiCityFlightSearch ==
    [type |-> "multi_city", origin |-> "LHR", destination |-> "JFK",
     departure_date |-> "2025-06-01", return_date |-> None,
     departure_time |-> None, arrival_time |-> None,
     cabin_class |-> "economy", adults |-> 1, max_connections |-> None,
     additional_stops |-> << [origin |-> "JFK", destination |-> "SFO",
                              departure_date |-> "2025-06-05"] >>]

\* MultiCityRequests of one, two (TwoLegSearch) and three segments.
LegOut == [origin |-> "LHR", destination |-> "JFK", departure_date |-> "2025-06-01"]
LegOn == [origin |-> "JFK", destination |-> "SFO", departure_date |-> "2025-06-05"]
LegBack == [origin |-> "SFO", destination |-> "LHR", departure_date |-> "2025-06-09"]

OneLegSearch == [TwoLegSearch EXCEPT !.segments = <<LegOut>>]
NoLegSearch == [TwoLegSearch EXCEPT !.segments = <<>>]
ThreeLegSearch == [TwoLegSearch EXCEPT !.segments = <<LegOut, LegOn, LegBack>>]
ThreeLegReversed == [TwoLegSearch EXCEPT !.segments = <<LegBack, LegOn, LegOut>>]

\* FlightSearch.type is a str (tools.py:25): searches of a type that is none
\* of the three the handler knows, and of one of them in capitals.
OpenJawSearch == [OneWaySearch EXCEPT !.type = "open_jaw"]
CapitalsSearch == [OneWaySearch EXCEPT !.type = "ONE_WAY"]

SearchInvocations ==
    { [tool |-> "search_flights", params |-> ps] :
        ps \in { OneWaySearch, OneWayWindow, RoundTripSearch, RoundTripWindows,
                 RoundTripOneWindow, RoundTripNoReturn, MultiCityFlightSearch,
                 OpenJawSearch, CapitalsSearch } }
    \cup
    { [tool |-> "search_multi_city", params |-> pm] :
        pm \in { NoLegSearch, OneLegSearch, TwoLegSearch, ThreeLegSearch,
                 ThreeLegReversed } }

\* The most segments a slice of an offer has, and the most offers a response
\* carries.
MaxSegments == 3
MaxOffers == 51

\* The airports a journey of several segments calls at, in order.
Airports == <<"AAA", "BBB", "CCC", "DDD", "EEE", "FFF">>

\* Segment i of a slice: from airport i to airport i + 1, with times, a
\* duration and a carrier of its own.
OfferSegment(i) ==
    [origin |-> [iata_code |-> Airports[i]],
     destination |-> [iata_code |-> Airports[i + 1]],
     departing_at |-> <<"departs", i>>, arriving_at |-> <<"arrives", i>>,
     duration |-> <<"flies", i>>,
     marketing_carrier |-> [name |-> <<"carrier", i>>]]

\* A slice of an offer with n segments.
OfferSlice(n) ==
    [origin |-> [iata_code |-> Airports[1]],
     destination |-> [iata_code |-> Airports[n + 1]],
     duration |-> <<"takes", n>>,
     segments |-> [i \in 1..n |-> OfferSegment(i)]]

\* Slices without segments: an empty list, and no segments field at all.
EmptySlice == [OfferSlice(1) EXCEPT !.segments = <<>>]
BareSlice == [duration |-> <<"takes", 0>>]

\* Offer i of a response, with the slices given.
OfferWith(i, slices) ==
    [id |-> <<"off", i>>, total_amount |-> <<"amount", i>>,
     total_currency |-> "GBP", slices |-> slices]

\* The lists of slices the offers of the responses have.
OfferSliceLists ==
    { <<OfferSlice(n)>> : n \in 1..MaxSegments }
    \cup { [n \in 1..MaxSegments |-> OfferSlice(MaxSegments + 1 - n)],
           <<EmptySlice>>, <<BareSlice>>, <<>>,
           <<OfferSlice(2), EmptySlice, OfferSlice(1), BareSlice, OfferSlice(3)>>,
           <<BareSlice, OfferSlice(1), EmptySlice>> }

\* How many offers the responses have: none, one, and around the two limits.
OfferCounts ==
    { 0, 1, search_multi_city_limit - 1, search_multi_city_limit,
      search_multi_city_limit + 1, search_flights_limit - 1,
      search_flights_limit, MaxOffers }

\* What the POST of invocation n can end in here: a failure, or a response
\* with offers.
OfferReplies(n) ==
    { [kind |-> "response", status |-> 500,
       body |-> [json |-> TRUE, value |-> [errors |-> <<>>]]] }
    \cup
    { [kind |-> "response", status |-> 201,
       body |-> [json |-> TRUE,
                 value |-> [data |-> [id |-> n, offers |-> offers]]]] :
        offers \in { [i \in 1..k |-> OfferWith(i, <<OfferSlice(1)>>)] :
                        k \in OfferCounts }
                   \cup { <<OfferWith(1, sl)>> : sl \in OfferSliceLists }
                   \cup { <<OfferWith(1, <<OfferSlice(2)>>), RawOffer,
                            OfferWith(3, <<EmptySlice>>)>> } }

\* Invocations started in a run of the search tools on their own.
MaxToolCalls == 1

ToolNext ==
    \/ \E t \in SearchInvocations :
          calls < MaxToolCalls /\ search_flights("u1", t)
    \/ \E t \in SearchInvocations :
          calls < MaxToolCalls /\ search_multi_city("u1", t)
    \/ \E r \in OfferReplies(callNo["u1"]) : post_completes("u1", r)
    \/ store_and_return("u1")
    \/ finish("u1")

ToolSpec == Init /\ [][ToolNext]_vars

\* ------------------------------- the search tools on offers that lack fields

\* A segment that has none of the fields the formatter reads, and one that
\* has a carrier without a name and a destination without a code.
SparseSegment == [id |-> "seg_1"]
NamelessSegment ==
    [id |-> "seg_2", marketing_carrier |-> [iata_code |-> "XX"],
     destination |-> [name |-> "Somewhere"], arriving_at |-> <<"arrives", 2>>]

\* Slices with segments: without a duration and with segments that lack
\* their fields; without an origin; with a destination that has no code.
SparseSlice ==
    [origin |-> [iata_code |-> "AAA"], destination |-> [iata_code |-> "CCC"],
     segments |-> <<SparseSegment, NamelessSegment, SparseSegment>>]
NoOriginSlice ==
    [destination |-> [iata_code |-> "BBB"], duration |-> <<"takes", 1>>,
     segments |-> <<OfferSegment(1)>>]
NoCodeSlice == [OfferSlice(1) EXCEPT !.destination = [name |-> "Somewhere"]]

\* An offer without an id, an amount and a currency.
SparseOffer == [slices |-> <<SparseSlice>>]

\* What the POST of invocation n can end in here: a failure, or a response
\* whose offers lack fields.
SparseReplies(n) ==
    { [kind |-> "response", status |-> 500,
       body |-> [json |-> TRUE, value |-> [errors |-> <<>>]]] }
    \cup
    { [kind |-> "response", status |-> 201,
       body |-> [json |-> TRUE,
                 value |-> [data |-> [id |-> n, offers |-> offers]]]] :
        offers \in { <<SparseOffer>>, <<RawOffer>>,
                     <<OfferWith(1, <<SparseSlice>>)>>,
                     <<OfferWith(1, <<OfferSlice(2)>>), SparseOffer>>,
                     <<OfferWith(1, <<NoOriginSlice>>)>>,
                     <<OfferWith(1, <<NoCodeSlice>>)>>,
                     <<OfferWith(1, <<OfferSlice(1), NoOriginSlice>>),
                       OfferWith(2, <<OfferSlice(1)>>)>>,
                     <<[id |-> <<"off", 1>>, slices |-> <<OfferSlice(1)>>]>> } }

SparseNext ==
    \/ \E t \in SearchInvocations :
          calls < MaxToolCalls /\ search_flights("u1", t)
    \/ \E t \in SearchInvocations :
          calls < MaxToolCalls /\ search_multi_city("u1", t)
    \/ \E r \in SparseReplies(callNo["u1"]) : post_completes("u1", r)
    \/ store_and_return("u1")
    \/ finish("u1")

SparseSpec == Init /\ [][SparseNext]_vars

\* ------------------------------------------- the passthroughs of the client

\* The greatest limit a caller asks list_offer_requests for.
MaxLimit == 1000

\* Limits: negative, zero, one, the default, and around and above the cap.
Limits ==
    { 0 - 1, 0, 1, default_page_limit, max_page_limit - 1, max_page_limit,
      max_page_limit + 1, MaxLimit }

\* Offer ids: with the prefix, the prefix alone, and without it: another
\* prefix, the prefix cut short, in capitals, not at the start, the empty
\* string.
OfferIds ==
    { OfferIdGood, <<"o", "f", "f", "_">>, OfferIdBad, <<"o", "f", "f">>,
      <<"o", "f", "f", "e", "r", "1">>, <<"O", "F", "F", "_", "1">>,
      <<"x", "o", "f", "f", "_", "1">>, <<>> }

PassInvocations ==
    { [tool |-> "list_offer_requests",
       params |-> [after |-> None, before |-> None, limit |-> l]] :
        l \in Limits }
    \cup
    { [tool |-> "list_offer_requests",
       params |-> [after |-> <<"cursor_a">>, before |-> <<"">>,
                   limit |-> default_page_limit]],
      [tool |-> "get_offer_request", params |-> [request_id |-> <<"o", "r", "q", "_", "1">>]],
      [tool |-> "get_offer_request", params |-> [request_id |-> <<>>]],
      [tool |-> "search_flights", params |-> OneWaySearch] }
    \cup { [tool |-> "get_offer_details", params |-> [offer_id |-> i]] :
             i \in OfferIds }
    \cup { [tool |-> "get_seat_map", params |-> [offer_id |-> i]] :
             i \in OfferIds }

\* What the POST of the one search can end in here.
PassPostReplies(n) ==
    { [kind |-> "response", status |-> 500,
       body |-> [json |-> TRUE, value |-> [errors |-> <<>>]]],
      [kind |-> "response", status |-> 201,
       body |-> [json |-> TRUE,
                 value |-> [data |-> [id |-> n, offers |-> <<RawOffer>>]]]] }

\* Invocations started in a run of the passthroughs.
MaxPassCalls == 2

PassNext ==
    \/ \E p \in Procs : \E t \in PassInvocations :
          calls < MaxPassCalls /\ list_offer_requests(p, t)
    \/ \E p \in Procs : \E t \in PassInvocations :
          calls < MaxPassCalls /\ get_offer_request(p, t)
    \/ \E p \in Procs : \E t \in PassInvocations :
          calls < MaxPassCalls /\ get_offer_details(p, t)
    \/ \E p \in Procs : \E t \in PassInvocations :
          calls < MaxPassCalls /\ get_seat_map(p, t)
    \/ \E p \in Procs : \E t \in PassInvocations :
          calls < MaxPassCalls /\ search_flights(p, t)
    \/ \E p \in Procs : \E r \in PassPostReplies(callNo[p]) : post_completes(p, r)
    \/ \E p \in Procs : store_and_return(p)
    \/ \E p \in Procs : pc[p] = "get" /\ \E r \in GetReplies(p) : get_completes(p, r)
    \/ \E p \in Procs : finish(p)

PassSpec == Init /\ [][PassNext]_vars

\* --------------------------------------- the search tools on time windows

\* The texts a caller gives as a bound of a time range.
TimeTexts == DOMAIN TimeChars

\* Searches with a time range one bound of which is the text: the start of
\* the departure range and the end of the arrival range of a FlightSearch,
\* and the start of the departure range of a MultiCityRequest.
WindowInvocations ==
    { [tool |-> "search_flights",
       params |-> [OneWaySearch EXCEPT
                     !.departure_time = << [from_time |-> x, to_time |-> "23:59"] >>]] :
        x \in TimeTexts }
    \cup
    { [tool |-> "search_flights",
       params |-> [OneWaySearch EXCEPT
                     !.arrival_time = << [from_time |-> "00:00", to_time |-> x] >>]] :
        x \in TimeTexts }
    \cup
    { [tool |-> "search_multi_city",
       params |-> [TwoLegSearch EXCEPT
                     !.departure_time = << [from_time |-> x, to_time |-> "23:59"] >>]] :
        x \in TimeTexts }

WindowNext ==
    \/ \E t \in WindowInvocations :
          calls < MaxToolCalls /\ search_flights("u1", t)
    \/ \E t \in WindowInvocations :
          calls < MaxToolCalls /\ search_multi_city("u1", t)
    \/ \E r \in PassPostReplies(callNo["u1"]) : post_completes("u1", r)
    \/ store_and_return("u1")
    \/ finish("u1")

WindowSpec == Init /\ [][WindowNext]_vars

\* ----------------------------- searches repeated over time, one at a time

\* Two searches with different keys.
RefreshInvocations ==
    { [tool |-> "search_flights", params |-> OneWaySearch],
      [tool |-> "search_flights", params |-> RoundTripSearch] }

\* The offer requests upstream has created for the search of p so far.  The
\* searches run one after the other and every response is stored, so the
\* entry of the search, when there is one, holds the last of them.
Created(p) ==
    IF KeyOf(args[p]) \in DOMAIN cache
    THEN cache[KeyOf(args[p])].response.request_id
    ELSE 0

\* What the POST of p can end in here: a failure, or a response in which
\* upstream names the offer request it has created, the next one of the search.
RefreshReplies(p) ==
    { [kind |-> "ReadTimeout"],
      [kind |-> "response", status |-> 500,
       body |-> [json |-> TRUE, value |-> [errors |-> <<>>]]],
      [kind |-> "response", status |-> 201,
       body |-> [json |-> TRUE,
                 value |-> [data |-> [id |-> Created(p) + 1,
                                      offers |-> <<RawOffer>>]]]] }

RefreshNext ==
    \/ \E t \in RefreshInvocations : search_flights("u1", t)
    \/ pc["u1"] = "http" /\ \E r \in RefreshReplies("u1") : post_completes("u1", r)
    \/ backoff_over("u1")
    \/ store_and_return("u1")
    \/ finish("u1")
    \/ Tick

RefreshSpec == Init /\ [][RefreshNext]_vars

\* ------------------------------------- invocations that run to their end

\* The searches of such a run: a search through the tool, and the same search
\* by the client called directly.
LiveInvocations ==
    { [tool |-> "search_flights", params |-> OneWaySearch],
      [tool |-> "create_offer_request", params |-> DirectArgs] }

\* Invocations started in such a run.
MaxLiveCalls == 2

\* asyncio.sleep(retry_delay): the time a unit of work sleeps passes.
Elapse ==
    /\ ~Returning
    /\ \E p \in Procs : pc[p] = "sleep" /\ now < wakeAt[p]
    /\ now' = now + retry_delay
    /\ UNCHANGED <<probe, ticks, budget, store, pc, callNo, tool, args, req,
                   attempt, trace, wakeAt, response, hit, result, output, error>>

LiveNext ==
    \/ \E p \in Procs : \E t \in LiveInvocations :
          calls < MaxLiveCalls /\ call_client(p, t)
    \/ \E p \in Procs : \E t \in LiveInvocations :
          calls < MaxLiveCalls /\ search_flights(p, t)
    \/ \E p \in Procs : \E r \in RepliesTo(p) : post_completes(p, r)
    \/ Elapse
    \/ \E p \in Procs : backoff_over(p)
    \/ \E p \in Procs : store_and_return(p)
    \/ \E p \in Procs : finish(p)

\* Every POST that is out ends, in a response or in an exception; the time
\* of a sleep passes; the event loop resumes a coroutine that can go on; and
\* the caller of a unit of work that has ended takes what it is handed.
LiveFairness ==
    /\ WF_vars(Elapse)
    /\ \A p \in Procs :
          /\ WF_vars(\E r \in RepliesTo(p) : post_completes(p, r))
          /\ WF_vars(backoff_over(p))
          /\ WF_vars(store_and_return(p))
          /\ WF_vars(finish(p))

LiveSpec == Init /\ [][LiveNext]_vars /\ LiveFairness

\* ------------------------------------------------ _cache_key on its own

\* What the legs of the searches below say.
LegContents ==
    { [origin |-> "LHR", destination |-> "JFK", departure_date |-> "2025-06-01"],
      [origin |-> "JFK", destination |-> "LHR", departure_date |-> "2025-06-08"] }

\* The orders in which a caller may have put the keys into the dict of a leg
\* (the first is that of _create_slice) and into its time window.
LegKeyOrders ==
    { <<"origin", "destination", "departure_date", "departure_time">>,
      <<"departure_time", "departure_date", "destination", "origin">>,
      <<"destination", "origin", "departure_time", "departure_date">> }
WindowKeyOrders == { <<"from", "to">>, <<"to", "from">> }

WindowDict(order) ==
    Dict([i \in 1..2 |-> <<order[i], Atom(FullDay[order[i]])>>])

LegDict(content, order, worder) ==
    Dict([i \in 1..4 |->
            <<order[i], IF order[i] = "departure_time"
                        THEN WindowDict(worder)
                        ELSE Atom(content[order[i]])>>])

LegDicts(content) ==
    { LegDict(content, o, w) : o \in LegKeyOrders, w \in WindowKeyOrders }

\* The lists of slices of the searches: one leg, or two different legs in
\* either order.
SliceLists ==
    { <<l>> : l \in UNION { LegDicts(c) : c \in LegContents } }
    \cup { <<l1, l2>> : l1 \in UNION { LegDicts(c) : c \in LegContents },
                        l2 \in UNION { LegDicts(c) : c \in LegContents } }

KeyProbes ==
    { [fn |-> "_cache_key",
       a |-> [slices |-> sa, cabin_class |-> "economy", adult_count |-> 1],
       b |-> [slices |-> sb, cabin_class |-> cb, adult_count |-> nb],
       out |-> NoValue] :
        sa \in SliceLists, sb \in SliceLists,
        cb \in {"economy", "business"}, nb \in {1, 2} }

\* Two calls of _cache_key are about to be made.
KeyInit == Idle /\ probe \in KeyProbes

\* _cache_key is called on both searches.
call_cache_key ==
    /\ probe.out = NoValue
    /\ probe' = [probe EXCEPT
                   !.out = [a |-> cache_key_digest(probe.a.slices,
                                                   probe.a.cabin_class,
                                                   probe.a.adult_count),
                            b |-> cache_key_digest(probe.b.slices,
                                                   probe.b.cabin_class,
                                                   probe.b.adult_count)]]
    /\ UNCHANGED <<clock, budget, store, pc, callNo, tool, args, req, attempt,
                   trace, wakeAt, response, hit, result, output, error>>

KeyNext == call_cache_key

KeySpec == KeyInit /\ [][KeyNext]_vars

\* ------------------------------------------------------------------ claims

\* What the claims call things, stated on what went over the wire.

\* An attempt ended in a read timeout of the transport.
IsReadTimeout(reply) == reply.kind = "ReadTimeout"

\* An attempt succeeded: a 2xx response whose JSON body names the offer request.
IsSuccess(reply) ==
    /\ reply.kind = "response"
    /\ reply.status \in 200..299
    /\ reply.body.json
    /\ "data" \in DOMAIN reply.body.value
    /\ "id" \in DOMAIN reply.body.value.data

\* p runs create_offer_request (and not a passthrough).
InCreate(p) == args[p] # NoArgs

\* This step is p entering create_offer_request.
Enters(p) == pc[p] = "idle" /\ args'[p] # NoArgs

\* The step served p from the cache: a result, and no POST.
Served(p) == result'[p] # NoValue /\ sent'[p] = <<>>

\* The entry for key is in the cache and younger than the time to live.
Unexpired(key) == key \in DOMAIN cache /\ now - cache[key].timestamp < TTL

\* C1: a call whose cache entry exists and has not expired returns the cached
\* result at once, with no POST and no backoff sleep.
C1_CachedNoUpstream ==
    [][\A p \in Procs :
         (Enters(p) /\ Unexpired(KeyOf(args'[p])))
         => /\ result'[p] = cache[KeyOf(args'[p])].response
            /\ pc'[p] \in {"done", "failed"}
            /\ sent'[p] = <<>> /\ slept'[p] = <<>> /\ replies'[p] = <<>>
            /\ req'[p] = NoValue
            /\ cache' = cache]_vars

\* C1 witness: the same search a second time, served from the result of an
\* earlier invocation without a request of its own.
C1_Witness ==
    \E p \in Procs :
        /\ pc[p] = "done" /\ InCreate(p) /\ sent[p] = <<>>
        /\ result[p].request_id < callNo[p]
        /\ origin[KeyOf(args[p])] = RequestOf(args[p])

\* C2 as stated: a call is served from the cache exactly when the entry exists
\* and its age does not exceed 300 seconds.
C2_ServedUpToTTL ==
    [][\A p \in Procs :
         Enters(p)
         => (Served(p) <=> /\ KeyOf(args'[p]) \in DOMAIN cache
                           /\ now - cache[KeyOf(args'[p])].timestamp <= 300)]_vars

\* C2 as amended: a call is served from the cache exactly when the entry
\* exists and its age is below 300 seconds; at an age of 300 seconds or more
\* the entry is treated as absent and the POST goes out.
C2_ServedBelowTTL ==
    [][\A p \in Procs :
         Enters(p)
         => /\ Served(p) <=> /\ KeyOf(args'[p]) \in DOMAIN cache
                             /\ now - cache[KeyOf(args'[p])].timestamp < 300
            /\ Served(p) => result'[p] = cache[KeyOf(args'[p])].response
            /\ ~Served(p) => pc'[p] = "http" /\ sent'[p] = <<0>>]_vars

\* C2 witness: an entry served at an age of 299 seconds.
C2_Witness ==
    \E p \in Procs :
        /\ pc[p] = "done" /\ InCreate(p) /\ sent[p] = <<>>
        /\ now - cache[KeyOf(args[p])].timestamp = 299

\* C3: a second POST is made if and only if the first ended in a read
\* timeout, and never a third; read timeout then success is a success after 2
\* attempts and one 1-second sleep; any other failure of attempt 1 fails at
\* once after 1 attempt and no sleep.
C3_RetryOnlyOnReadTimeout ==
    \A p \in Procs :
        InCreate(p)
        => /\ Len(sent[p]) <= 2
           /\ Len(sent[p]) = 2 => IsReadTimeout(replies[p][1])
           /\ (replies[p] # <<>> /\ IsReadTimeout(replies[p][1]))
              => \/ pc[p] = "sleep" /\ Len(sent[p]) = 1 /\ wakeAt[p] >= 1
                 \/ Len(sent[p]) = 2 /\ now >= wakeAt[p]
           /\ (Len(replies[p]) = 2 /\ IsSuccess(replies[p][2]))
              => /\ Len(sent[p]) = 2 /\ slept[p] = <<1>>
                 /\ response[p] # NoValue
                 /\ pc[p] = "closing" \/ result[p] = response[p]
           /\ (replies[p] # <<>> /\ ~IsReadTimeout(replies[p][1])
                               /\ ~IsSuccess(replies[p][1]))
              => /\ pc[p] = "failed" /\ result[p] = NoValue
                 /\ Len(sent[p]) = 1 /\ Len(replies[p]) = 1 /\ slept[p] = <<>>

\* C3 witness: a read timeout, then a success, returned.
C3_Witness ==
    \E p \in Procs :
        /\ pc[p] = "done" /\ InCreate(p) /\ Len(replies[p]) = 2
        /\ IsReadTimeout(replies[p][1]) /\ IsSuccess(replies[p][2])

\* C4: when both attempts end in a read timeout the invocation fails after
\* exactly 2 attempts, does not sleep after the second, and returns nothing.
C4_TwoTimeoutsFail ==
    \A p \in Procs :
        (InCreate(p) /\ Len(replies[p]) >= 2
            /\ IsReadTimeout(replies[p][1]) /\ IsReadTimeout(replies[p][2]))
        => /\ pc[p] = "failed"
           /\ Len(sent[p]) = 2 /\ Len(replies[p]) = 2 /\ slept[p] = <<1>>
           /\ response[p] = NoValue /\ result[p] = NoValue
           /\ output[p] = NoValue

\* C4 witness: two read timeouts.
C4_Witness ==
    \E p \in Procs :
        /\ pc[p] = "failed" /\ InCreate(p) /\ Len(replies[p]) = 2
        /\ IsReadTimeout(replies[p][1]) /\ IsReadTimeout(replies[p][2])

\* The invocation p has ended and create_offer_request gave it a response.
Ended(p) == pc[p] \in {"done", "failed"} /\ InCreate(p)

\* create_offer_request of p has failed (and not the formatting after it).
CreateFailed(p) == pc[p] = "failed" /\ InCreate(p) /\ result[p] = NoValue
                   /\ replies[p] # <<>>

\* C5 as stated: every cache hit returns a result that was obtained from an
\* outbound request identical to the one the current call would have sent;
\* calls whose outbound requests differ never share a cache entry.
C5_HitMatchesRequest ==
    \A p \in Procs :
        (Ended(p) /\ hit[p])
        => origin[KeyOf(args[p])] = RequestOf(args[p])

\* C6: two invocations racing on one key may both miss and both call
\* upstream; each makes at most 2 POSTs; every store replaces the entry with
\* the storing invocation's response and the time of the store, so the last
\* store survives; each caller gets the response of its own upstream call.
C6_LastWriterWins ==
    \A p \in Procs :
        /\ InCreate(p) => Len(sent[p]) <= max_retries
        /\ (Ended(p) /\ ~hit[p] /\ result[p] # NoValue)
           => /\ cache[KeyOf(args[p])] =
                     [response |-> result[p], timestamp |-> now]
              /\ result[p].request_id = callNo[p]
              /\ IsSuccess(Last(replies[p]))
              /\ result[p].request_id = Last(replies[p]).body.value.data.id

\* C6 witness: both missed on the same key; one has stored and returned its
\* own response while the other still holds its own, to be stored next.
C6_Witness ==
    \E p, q \in Procs :
        /\ p # q
        /\ pc[p] = "done" /\ InCreate(p) /\ ~hit[p]
        /\ pc[q] = "closing" /\ KeyOf(args[q]) = KeyOf(args[p])
        /\ response[q] # NoValue /\ response[q] # result[p]
        /\ cache[KeyOf(args[p])].response = result[p]

\* C7: the cache changes only when an invocation whose upstream call
\* succeeded stores its response, and then only under that invocation's key;
\* a step in which create_offer_request fails, or goes to retry, leaves the
\* cache as it was for every key.
C7_InsertOnlyOnSuccess ==
    [][/\ cache' # cache
          => \E p \in Procs :
                /\ pc[p] = "closing" /\ pc'[p] \in {"done", "failed"}
                /\ replies[p] # <<>> /\ IsSuccess(Last(replies[p]))
                /\ cache'[KeyOf(args[p])].response = response[p]
                /\ response[p] # NoValue
                /\ \A k \in DOMAIN cache \ {KeyOf(args[p])} :
                      k \in DOMAIN cache' /\ cache'[k] = cache[k]
       /\ \A p \in Procs :
             (InCreate(p) /\ replies'[p] # replies[p] /\ replies'[p] # <<>>
                 /\ ~IsSuccess(Last(replies'[p])))
             => /\ cache' = cache
                /\ pc'[p] = "failed" \/ (pc'[p] = "sleep" /\ attempt[p] = 0)]_vars

\* C7 witness: retries exhausted under a key that has no entry, next to an
\* entry another search has left.
C7_Witness ==
    \E p \in Procs :
        /\ CreateFailed(p) /\ Len(replies[p]) = 2
        /\ KeyOf(args[p]) \notin DOMAIN cache
        /\ DOMAIN cache # {}

\* The exception the failure of an attempt starts as.
Underlying(reply) ==
    IF reply.kind # "response" THEN reply.kind
    ELSE IF reply.status \notin 200..299 THEN "HTTPStatusError"
    ELSE IF ~reply.body.json THEN "JSONDecodeError"
    ELSE "KeyError"

\* C8 as stated: every failure of create_offer_request reaches the caller as
\* an UpstreamError that carries the underlying cause, distinct from the
\* error of a validation failure.
C8_SurfacesAsUpstreamError ==
    \A p \in Procs :
        CreateFailed(p)
        => /\ error[p].type = "UpstreamError"
           /\ error[p].cause = Underlying(Last(replies[p]))
           /\ ~IsValueError(error[p])

\* C8 as amended: every failure of create_offer_request reaches the caller as
\* the underlying exception itself, re-raised unchanged and unwrapped; none is
\* swallowed: an attempt that fails and is not retried ends the invocation
\* with that exception and without a result.
C8_SurfacesUnderlying ==
    \A p \in Procs :
        /\ CreateFailed(p)
           => /\ error[p].type = Underlying(Last(replies[p]))
              /\ error[p].cause = "None"
              /\ output[p] = NoValue
        /\ (InCreate(p) /\ replies[p] # <<>> /\ ~IsSuccess(Last(replies[p])))
           => \/ CreateFailed(p)
              \/ /\ pc[p] \in {"sleep", "http"}
                 /\ Len(replies[p]) = 1 /\ IsReadTimeout(replies[p][1])

\* C8 witness: a body that is not JSON reaches the caller as the decoder's
\* exception, which is a ValueError.
C8_Witness ==
    \E p \in Procs :
        /\ CreateFailed(p)
        /\ Underlying(Last(replies[p])) = "JSONDecodeError"
        /\ IsValueError(error[p])

\* A GET succeeded: a 2xx response with a JSON body.
IsGetSuccess(reply) ==
    /\ reply.kind = "response"
    /\ reply.status \in 200..299
    /\ reply.body.json

\* The upstream call that p's result depends on succeeded.
UpstreamSucceeded(p) ==
    IF InCreate(p)
    THEN IF sent[p] = <<>>
         THEN /\ KeyOf(args[p]) \in DOMAIN cache
              /\ cache[KeyOf(args[p])].response # NoValue
         ELSE IsSuccess(Last(replies[p]))
    ELSE replies[p] # <<>> /\ IsGetSuccess(Last(replies[p]))

\* C9: a tool returns a JSON result only if the upstream call it depended on
\* succeeded; a success without an offers field gives a result with an empty
\* list of offers; a failed upstream call gives no result at all.
C9_NoErrorAsSuccess ==
    \A p \in Procs :
        /\ (pc[p] = "done" \/ output[p] # NoValue)
           => pc[p] = "done" /\ output[p] # NoValue /\ UpstreamSucceeded(p)
        /\ (replies[p] # <<>> /\ ~IsSuccess(Last(replies[p]))
                              /\ ~IsGetSuccess(Last(replies[p])))
           => output[p] = NoValue /\ result[p] = NoValue /\ pc[p] # "done"
        /\ (pc[p] = "done" /\ InCreate(p) /\ sent[p] # <<>>
              /\ "offers" \notin DOMAIN Last(replies[p]).body.value.data)
           => /\ result[p] = [request_id |-> callNo[p], offers |-> <<>>]
              /\ tool[p].tool \in {"search_flights", "search_multi_city"}
                 => output[p] = JsonDumps(result[p])
        /\ \A k \in DOMAIN cache : cache[k].response # NoValue

\* C9 witness: a search answered with a body that has no offers field.
C9_Witness ==
    \E p \in Procs :
        /\ pc[p] = "done" /\ tool[p].tool = "search_flights" /\ sent[p] # <<>>
        /\ "offers" \notin DOMAIN Last(replies[p]).body.value.data
        /\ output[p].json_text_of.offers = <<>>

\* C10 as stated: the body of a POST for a call that was given no
\* max_connections has no max_connections field.
C10_NoMaxConnectionsField ==
    \A p \in Procs :
        (pc[p] = "http" /\ args[p].max_connections = None)
        => "max_connections" \notin DOMAIN req[p].body.data

\* What a dict, a list or an atom says, whatever the order its dicts were
\* filled in: a dict is the map from its keys to what its values say.
RECURSIVE Meaning(_)
Meaning(obj) ==
    IF "atom" \in DOMAIN obj THEN obj
    ELSE IF "elems" \in DOMAIN obj
    THEN [list |-> [i \in DOMAIN obj.elems |-> Meaning(obj.elems[i])]]
    ELSE [dict |-> [k \in { obj.items[i][1] : i \in DOMAIN obj.items } |->
                      Meaning(obj.items[CHOOSE i \in DOMAIN obj.items :
                                            obj.items[i][1] = k][2])]]

\* The function fn has been applied to the probe.
Probed(fn) == "out" \in DOMAIN probe /\ probe.fn = fn /\ probe.out # NoValue

\* Two searches have the same ordered legs, cabin class and adult count.
SameSearch(a, b) ==
    /\ Meaning(List(a.slices)) = Meaning(List(b.slices))
    /\ a.cabin_class = b.cabin_class
    /\ a.adult_count = b.adult_count

\* C11: two searches with the same ordered legs, whatever the insertion order
\* of the keys inside each leg, the same cabin class and the same adult count
\* get the same key from _cache_key.
C11_KeyDeterminism ==
    (Probed("_cache_key") /\ SameSearch(probe.a, probe.b))
    => probe.out.a = probe.out.b

\* C11 witness: two legs each filled in a different order on the two sides,
\* down to the time windows inside them, and one key.
C11_Witness ==
    /\ Probed("_cache_key") /\ SameSearch(probe.a, probe.b)
    /\ Len(probe.a.slices) = 2
    /\ \A i \in 1..2 :
          /\ probe.a.slices[i].items[1][1] # probe.b.slices[i].items[1][1]
          /\ \E j, k \in 1..4 :
                /\ probe.a.slices[i].items[j][1] = "departure_time"
                /\ probe.b.slices[i].items[k][1] = "departure_time"
                /\ probe.a.slices[i].items[j][2] # probe.b.slices[i].items[k][2]
    /\ probe.out.a = probe.out.b

\* The window a slice is to have for the time range w the caller gave, if any.
WindowFor(w) ==
    IF w = None THEN [from |-> "00:00", to |-> "23:59"]
    ELSE [from |-> w[1].from_time, to |-> w[1].to_time]

\* p runs the tool named, and the handler has been entered.
Runs(p, name) == tool[p] # NoValue /\ tool[p].tool = name

\* p runs a round-trip search, with a return date or without.
RoundTrip(p) == Runs(p, "search_flights") /\ tool[p].params.type = "round_trip"

\* C12: for a round trip from O to D on d1, back on d2, the client gets
\* exactly two slices, O to D on d1 and then D to O on d2, each with the
\* caller's departure and arrival windows, or the full day where the caller
\* gave none; they are the slices of the request that goes upstream.
C12_RoundTripSlices ==
    \A p \in Procs :
        (RoundTrip(p) /\ tool[p].params.return_date # None)
        => LET ps == tool[p].params
               dw == WindowFor(ps.departure_time)
               aw == WindowFor(ps.arrival_time)
           IN /\ InCreate(p)
              /\ args[p].slices =
                   << [origin |-> ps.origin, destination |-> ps.destination,
                       departure_date |-> ps.departure_date,
                       departure_time |-> dw, arrival_time |-> aw],
                      [origin |-> ps.destination, destination |-> ps.origin,
                       departure_date |-> ps.return_date[1],
                       departure_time |-> dw, arrival_time |-> aw] >>
              /\ pc[p] = "http" => req[p].body.data.slices = args[p].slices

\* C12 witness: a round trip with two windows of the caller is on its way
\* upstream, and one without windows has full-day slices.
C12_Witness ==
    \E p \in Procs :
        /\ RoundTrip(p) /\ pc[p] = "http" /\ Len(req[p].body.data.slices) = 2
        /\ tool[p].params.departure_time # None
        /\ tool[p].params.arrival_time # None
        /\ req[p].body.data.slices[2].arrival_time.from = "17:00"

\* This step is p starting a round-trip search that has no return date.
StartsNoReturn(p) ==
    /\ pc[p] = "idle" /\ tool'[p] # NoValue
    /\ tool'[p].tool = "search_flights"
    /\ tool'[p].params.type = "round_trip"
    /\ tool'[p].params.return_date = None

\* C13: a round-trip search without a return date fails with a ValueError
\* before any network call: the step that starts it ends it, no POST is
\* attempted, the cache is as it was, and the error is the caller's.
C13_NoReturnDateFails ==
    [][\A p \in Procs :
         StartsNoReturn(p)
         => /\ pc'[p] = "failed" /\ error'[p] = Raised("ValueError")
            /\ sent'[p] = <<>> /\ req'[p] = NoValue /\ args'[p] = NoArgs
            /\ result'[p] = NoValue /\ output'[p] = NoValue
            /\ cache' = cache]_vars

\* C13 witness: such a search has failed while the cache holds an entry of an
\* earlier search.
C13_Witness ==
    \E p \in Procs :
        /\ RoundTrip(p) /\ tool[p].params.return_date = None
        /\ pc[p] = "failed" /\ sent[p] = <<>>
        /\ DOMAIN cache # {}

\* p runs a multi-city search, through either tool.
MultiCity(p) ==
    \/ Runs(p, "search_multi_city")
    \/ Runs(p, "search_flights") /\ tool[p].params.type = "multi_city"

\* The legs the caller of a multi-city search supplied.
SuppliedLegs(p) ==
    IF tool[p].tool = "search_multi_city" THEN tool[p].params.segments
    ELSE << [origin |-> tool[p].params.origin,
             destination |-> tool[p].params.destination,
             departure_date |-> tool[p].params.departure_date] >>
         \o tool[p].params.additional_stops

\* C14 as stated: a multi-city search with n >= 2 legs, through
\* search_multi_city or through search_flights with type multi_city, passes
\* exactly n slices to the client, one per leg in the given order with the
\* leg's origin, destination and date; with fewer than 2 legs it fails with a
\* validation error and no upstream call.
C14_MultiCitySlices ==
    \A p \in Procs :
        MultiCity(p)
        => LET legs == SuppliedLegs(p) IN
           IF Len(legs) >= 2
           THEN /\ InCreate(p)
                /\ Len(args[p].slices) = Len(legs)
                /\ \A i \in DOMAIN legs :
                      /\ args[p].slices[i].origin = legs[i].origin
                      /\ args[p].slices[i].destination = legs[i].destination
                      /\ args[p].slices[i].departure_date = legs[i].departure_date
           ELSE /\ pc[p] = "failed" /\ sent[p] = <<>> /\ ~InCreate(p)
                /\ error[p].type \in {"ValueError", "ValidationError"}

\* p has been returned the formatted text of a response it fetched itself.
Formatted(p) ==
    /\ pc[p] = "done" /\ sent[p] # <<>>
    /\ tool[p].tool \in {"search_flights", "search_multi_city"}

\* The offers upstream sent p, and those of the text p returned.
UpstreamOffers(p) == Last(replies[p]).body.value.data.offers
ReturnedOffers(p) == output[p].json_text_of.offers

\* The slices of an upstream offer, and those of them that have segments.
SlicesOf(offer) == IF "slices" \in DOMAIN offer THEN offer.slices ELSE <<>>
Segmented(slice) == "segments" \in DOMAIN slice /\ slice.segments # <<>>
SegmentedSlicesOf(offer) == SelectSeq(SlicesOf(offer), Segmented)

\* The limit of the tool p runs.
LimitOf(p) ==
    IF tool[p].tool = "search_flights" THEN search_flights_limit
    ELSE search_multi_city_limit

Min(a, b) == IF a < b THEN a ELSE b

\* C15: a slice with n >= 1 segments is formatted with the departure of its
\* first segment, the arrival of its last, the carrier name of its first, and
\* n - 1 connections in order, connection i with the destination airport and
\* the arrival of segment i and the departure and the duration of segment
\* i + 1.
C15_SegmentDerivation ==
    \A p \in Procs :
        Formatted(p)
        => \A o \in DOMAIN ReturnedOffers(p) :
             LET raw == SegmentedSlicesOf(UpstreamOffers(p)[o])
                 out == ReturnedOffers(p)[o].slices
             IN /\ Len(out) = Len(raw)
                /\ \A k \in DOMAIN raw :
                     LET segs == raw[k].segments
                         n == Len(segs)
                     IN /\ out[k].departure = segs[1].departing_at
                        /\ out[k].arrival = segs[n].arriving_at
                        /\ out[k].carrier = segs[1].marketing_carrier.name
                        /\ Len(out[k].connections) = n - 1
                        /\ \A i \in 1..(n - 1) :
                             /\ out[k].connections[i].airport =
                                   segs[i].destination.iata_code
                             /\ out[k].connections[i].arrival =
                                   segs[i].arriving_at
                             /\ out[k].connections[i].departure =
                                   segs[i + 1].departing_at
                             /\ out[k].connections[i].duration =
                                   segs[i + 1].duration

\* C15 witness: a slice of three segments AAA-BBB, BBB-CCC, CCC-DDD returned
\* with two connections, at BBB and then at CCC.
C15_Witness ==
    \E p \in Procs :
        /\ Formatted(p) /\ Len(UpstreamOffers(p)) = 1
        /\ SlicesOf(UpstreamOffers(p)[1]) = <<OfferSlice(3)>>
        /\ Len(ReturnedOffers(p)[1].slices[1].connections) = 2
        /\ ReturnedOffers(p)[1].slices[1].connections[1].airport = "BBB"
        /\ ReturnedOffers(p)[1].slices[1].connections[2].airport = "CCC"

\* C16: a slice without segments is in no formatted offer and causes no
\* error: a response whose slices lack segments is still formatted, every
\* offer within the limit is returned, and its slices are those that have
\* segments, in their order.
C16_EmptySliceDropped ==
    \A p \in Procs :
        /\ (Ended(p) /\ sent[p] # <<>> /\ IsSuccess(Last(replies[p]))
              /\ tool[p].tool \in {"search_flights", "search_multi_city"})
           => pc[p] = "done"
        /\ Formatted(p)
           => /\ Len(ReturnedOffers(p)) = Min(Len(UpstreamOffers(p)), LimitOf(p))
              /\ \A o \in DOMAIN ReturnedOffers(p) :
                   LET raw == SegmentedSlicesOf(UpstreamOffers(p)[o])
                       out == ReturnedOffers(p)[o].slices
                   IN /\ ReturnedOffers(p)[o].offer_id = UpstreamOffers(p)[o].id
                      /\ Len(out) = Len(raw)
                      /\ \A k \in DOMAIN raw :
                           /\ out[k].duration = raw[k].duration
                           /\ out[k].destination = raw[k].destination.iata_code

\* C16 witness: of five slices, one with an empty list of segments and one
\* with no segments field, the other three returned in their order.
C16_Witness ==
    \E p \in Procs :
        /\ Formatted(p) /\ Len(UpstreamOffers(p)) = 1
        /\ Len(SlicesOf(UpstreamOffers(p)[1])) = 5
        /\ EmptySlice \in { SlicesOf(UpstreamOffers(p)[1])[i] : i \in 1..5 }
        /\ BareSlice \in { SlicesOf(UpstreamOffers(p)[1])[i] : i \in 1..5 }
        /\ [k \in 1..3 |-> ReturnedOffers(p)[1].slices[k].duration]
              = << <<"takes", 2>>, <<"takes", 1>>, <<"takes", 3>> >>

HasOffPrefix(id) ==
    /\ Len(id) >= 4
    /\ id[1] = "o" /\ id[2] = "f" /\ id[3] = "f" /\ id[4] = "_"

\* C18: get_offer (behind get_offer_details) and get_seat_map check the id
\* before they call upstream: an id that does not start with off_ fails with a
\* ValueError and no request; a GET goes out only for ids with the prefix, and
\* for each of them.
C18_PrefixValidated ==
    \A p \in Procs :
        (Runs(p, "get_offer_details") \/ Runs(p, "get_seat_map"))
        => IF HasOffPrefix(tool[p].params.offer_id)
           THEN /\ Len(sent[p]) = 1
                /\ pc[p] = "get"
                   => /\ req[p].method = "GET"
                      /\ req[p].id = tool[p].params.offer_id
           ELSE /\ pc[p] = "failed" /\ error[p] = Raised("ValueError")
                /\ sent[p] = <<>> /\ replies[p] = <<>> /\ req[p] = NoValue
                /\ output[p] = NoValue

\* C18 witness: get_seat_map refused for an id that begins with "off" but not
\* with "off_".
C18_Witness ==
    \E p \in Procs :
        /\ Runs(p, "get_seat_map") /\ pc[p] = "failed" /\ sent[p] = <<>>
        /\ tool[p].params.offer_id = <<"o", "f", "f", "e", "r", "1">>

\* p has the GET of list_offer_requests in flight.
Listing(p) == Runs(p, "list_offer_requests") /\ pc[p] = "get"

\* C19 as stated: for every limit, the limit parameter sent upstream does not
\* exceed 200: a limit above 200 is sent as 200, a limit of at most 200 is
\* sent unchanged.
C19_LimitSentCapped ==
    \A p \in Procs :
        Listing(p)
        => /\ "limit" \in DOMAIN req[p].params
           /\ req[p].params.limit <= 200
           /\ tool[p].params.limit > 200 => req[p].params.limit = 200
           /\ tool[p].params.limit <= 200
              => req[p].params.limit = tool[p].params.limit

\* C19 as amended: a limit of 0 sends no limit parameter at all; for every
\* other limit the parameter is sent and does not exceed 200: 200 for a limit
\* above 200, the limit unchanged otherwise.
C19_LimitCappedOrLeftOut ==
    \A p \in Procs :
        Listing(p)
        => IF tool[p].params.limit = 0
           THEN "limit" \notin DOMAIN req[p].params
           ELSE /\ "limit" \in DOMAIN req[p].params
                /\ req[p].params.limit <= 200
                /\ tool[p].params.limit > 200 => req[p].params.limit = 200
                /\ tool[p].params.limit <= 200
                   => req[p].params.limit = tool[p].params.limit

\* C19 witness: a limit above the cap that goes out as 200.
C19_Witness ==
    \E p \in Procs :
        /\ Listing(p) /\ tool[p].params.limit > 200
        /\ req[p].params.limit = 200

\* The operations that go straight to upstream.
Passthroughs ==
    {"list_offer_requests", "get_offer_request", "get_offer_details",
     "get_seat_map"}

\* The unit of work p takes this step, and it runs a passthrough.
PassthroughStep(p) ==
    /\ pc'[p] # pc[p]
    /\ \/ tool[p] # NoValue /\ tool[p].tool \in Passthroughs
       \/ tool'[p] # NoValue /\ tool'[p].tool \in Passthroughs

\* C20: a passthrough uses neither cache nor retry: no step of it changes the
\* cache, it issues at most one request, exactly one unless the id is
\* refused, and whatever its GET ends in ends it: a failure, a read timeout
\* included, goes to the caller at once, with no sleep and no second request.
C20_PassthroughPlain ==
    [][\A p \in Procs :
         PassthroughStep(p)
         => /\ cache' = cache
            /\ Len(sent'[p]) <= 1 /\ slept'[p] = <<>> /\ ~hit'[p]
            /\ pc[p] = "idle"
               => \/ pc'[p] = "get" /\ Len(sent'[p]) = 1
                  \/ /\ pc'[p] = "failed" /\ sent'[p] = <<>>
                     /\ error'[p] = Raised("ValueError")
                     /\ tool'[p].tool \in {"get_offer_details", "get_seat_map"}
            /\ pc[p] = "get"
               => /\ Len(replies'[p]) = 1 /\ sent'[p] = sent[p]
                  /\ IF IsGetSuccess(replies'[p][1])
                     THEN pc'[p] = "done"
                     ELSE pc'[p] = "failed" /\ output'[p] = NoValue]_vars

\* C20 witness: the GET of list_offer_requests has timed out and the caller
\* has the exception after one request, next to a cache entry that is there.
C20_Witness ==
    \E p \in Procs :
        /\ Runs(p, "list_offer_requests") /\ pc[p] = "failed"
        /\ Len(sent[p]) = 1 /\ replies[p] = << [kind |-> "ReadTimeout"] >>
        /\ error[p] = Raised("ReadTimeout")
        /\ DOMAIN cache # {}

\* The requests of p that are out and have not ended.
InFlight(p) == Len(sent[p]) - Len(replies[p])

\* The unit of work q takes this step.
Steps(q) == pc'[q] # pc[q]

\* Nothing of the units of work other than p changes in this step.
OthersStill(p) ==
    \A q \in Procs \ {p} :
        /\ pc'[q] = pc[q] /\ args'[q] = args[q] /\ req'[q] = req[q]
        /\ sent'[q] = sent[q] /\ replies'[q] = replies[q]
        /\ response'[q] = response[q] /\ result'[q] = result[q]

\* C21: an invocation of create_offer_request has at most one request in
\* flight, and one exactly while it awaits its POST; another unit of work takes
\* a step only while it awaits the POST, the closing of that attempt's HTTP
\* client, or the backoff sleep; the cache lookup with its decision (the
\* result returned on a hit, the POST out on a miss) is one step, and so is the
\* store after a success, which changes the entry of the key alone.
C21_OneCallAtomicCache ==
    /\ [](\A p \in Procs :
            InCreate(p)
            => /\ InFlight(p) \in {0, 1}
               /\ InFlight(p) = 1 <=> pc[p] = "http"
               /\ pc[p] = "http" <=> req[p] # NoValue)
    /\ [][\A p \in Procs :
            /\ \A q \in Procs \ {p} :
                  (InCreate(p) /\ Steps(q))
                  => pc[p] \in {"http", "closing", "sleep"}
            /\ Enters(p)
               => /\ OthersStill(p) /\ cache' = cache
                  /\ IF CacheFresh(cache, KeyOf(args'[p]), now)
                     THEN /\ pc'[p] \in {"done", "failed"}
                          /\ result'[p] = cache[KeyOf(args'[p])].response
                          /\ InFlight(p)' = 0
                     ELSE pc'[p] = "http" /\ InFlight(p)' = 1
            /\ (InCreate(p) /\ pc[p] = "closing" /\ Steps(p))
               => /\ OthersStill(p)
                  /\ pc'[p] \in {"done", "failed"}
                  /\ cache'[KeyOf(args[p])]
                        = [response |-> response[p], timestamp |-> now]
                  /\ DOMAIN cache' = DOMAIN cache \cup {KeyOf(args[p])}
                  /\ \A k \in DOMAIN cache \ {KeyOf(args[p])} :
                        cache'[k] = cache[k]]_vars

\* C21 witness: two invocations of the same search inside create_offer_request
\* at once, one with the POST of its retry in flight, the other between its
\* response and its store.
C21_Witness ==
    \E p, q \in Procs :
        /\ p # q /\ InCreate(p) /\ InCreate(q)
        /\ KeyOf(args[p]) = KeyOf(args[q])
        /\ pc[p] = "http" /\ Len(sent[p]) = 2 /\ InFlight(p) = 1
        /\ pc[q] = "closing" /\ InFlight(q) = 0

\* The types of search that search_flights knows.
SearchTypes == {"one_way", "round_trip", "multi_city"}

\* C22 as stated: a search_flights whose type is none of one_way, round_trip
\* and multi_city fails with a validation error before the client is called,
\* with no request upstream; create_offer_request never gets an empty list of
\* slices.
C22_TypeValidated ==
    \A p \in Procs :
        /\ (Runs(p, "search_flights") /\ tool[p].params.type \notin SearchTypes)
           => /\ pc[p] = "failed" /\ ~InCreate(p)
              /\ sent[p] = <<>> /\ req[p] = NoValue
              /\ error[p].type \in {"ValueError", "ValidationError"}
        /\ InCreate(p) => args[p].slices # <<>>

\* This step is p storing the response of its own upstream call.
Stores(p) == InCreate(p) /\ pc[p] = "closing" /\ Steps(p)

\* C23: the time to live runs from the insertion: a hit leaves the whole cache
\* as it was, the timestamp of the entry it served included; the timestamp of
\* an entry is set only by a store under its key, to the time of that store;
\* and a call that finds the entry 300 seconds or more after that time is not
\* served from it.
C23_TTLFromInsertion ==
    [][/\ \A p \in Procs :
             Enters(p)
             => /\ Served(p) => /\ cache' = cache
                                /\ now - cache[KeyOf(args'[p])].timestamp < TTL
                /\ (/\ KeyOf(args'[p]) \in DOMAIN cache
                    /\ now >= cache[KeyOf(args'[p])].timestamp + TTL)
                   => ~Served(p) /\ pc'[p] = "http"
       /\ \A k \in DOMAIN cache' :
             (k \notin DOMAIN cache \/ cache'[k] # cache[k])
             => /\ \E p \in Procs : Stores(p) /\ KeyOf(args[p]) = k
                /\ cache'[k].timestamp = now
       /\ \A k \in DOMAIN cache : k \in DOMAIN cache']_vars

\* C23 witness: a call served at time 299 from an entry whose timestamp is
\* still 0, the time it was inserted at.
C23_Witness ==
    \E p \in Procs :
        /\ pc[p] = "done" /\ InCreate(p) /\ hit[p] /\ sent[p] = <<>>
        /\ now = 299 /\ cache[KeyOf(args[p])].timestamp = 0
        /\ result[p] = cache[KeyOf(args[p])].response

\* C24: the store after a successful upstream call replaces the entry of its
\* key, whether there was one or not, with the new response and the time of
\* the store, and leaves every other entry as it was; the response stored over
\* an entry is not the one that was there; a call that then finds the entry
\* less than 300 seconds old is served the response of the entry as it is now,
\* with no request of its own.
C24_StoreOverwrites ==
    /\ [][\A p \in Procs :
            /\ Stores(p)
               => LET key == KeyOf(args[p]) IN
                  /\ IsSuccess(Last(replies[p]))
                  /\ DOMAIN cache' = DOMAIN cache \cup {key}
                  /\ cache'[key] = [response |-> response[p], timestamp |-> now]
                  /\ key \in DOMAIN cache
                     => cache'[key].response # cache[key].response
                  /\ \A k \in DOMAIN cache \ {key} : cache'[k] = cache[k]
            /\ (Enters(p) /\ Unexpired(KeyOf(args'[p])))
               => /\ Served(p)
                  /\ result'[p] = cache[KeyOf(args'[p])].response]_vars
    /\ [](\A p \in Procs :
            (Ended(p) /\ hit[p])
            => /\ result[p] = cache[KeyOf(args[p])].response
               /\ now - cache[KeyOf(args[p])].timestamp < TTL)

\* C24 witness: a call served the second offer request of its search, which
\* was stored at time 300 over the first.
C24_Witness ==
    \E p \in Procs :
        /\ pc[p] = "done" /\ hit[p] /\ sent[p] = <<>>
        /\ result[p].request_id = 2
        /\ cache[KeyOf(args[p])] = [response |-> result[p], timestamp |-> 300]

\* What the text is to have for field k of the upstream dict d, and for field
\* k2 of the dict that is its field k: the value, or null when it is absent.
OrNull(d, k) == IF k \in DOMAIN d THEN d[k] ELSE "null"
OrNull2(d, k, k2) ==
    IF k \in DOMAIN d /\ k2 \in DOMAIN d[k] THEN d[k][k2] ELSE "null"

\* p has ended a search whose upstream call it made itself, and that call
\* succeeded.
Answered(p) ==
    /\ Ended(p) /\ sent[p] # <<>> /\ IsSuccess(Last(replies[p]))
    /\ tool[p].tool \in {"search_flights", "search_multi_city"}

\* C25 as stated: whatever fields the offers of a successful response lack,
\* the search returns its text, and every field of it is the upstream value,
\* or null where upstream has none: the id, the amount and the currency of an
\* offer; of a slice with segments the origin, the destination, the
\* departure, the arrival, the duration and the carrier; and the airport, the
\* arrival, the departure and the duration of each connection.
C25_AbsentIsNull ==
    \A p \in Procs :
        Answered(p)
        => /\ pc[p] = "done"
           /\ \A o \in DOMAIN ReturnedOffers(p) :
                LET up == UpstreamOffers(p)[o]
                    fo == ReturnedOffers(p)[o]
                    raw == SegmentedSlicesOf(up)
                IN /\ fo.offer_id = OrNull(up, "id")
                   /\ fo.price.amount = OrNull(up, "total_amount")
                   /\ fo.price.currency = OrNull(up, "total_currency")
                   /\ Len(fo.slices) = Len(raw)
                   /\ \A k \in DOMAIN raw :
                        LET segs == raw[k].segments
                            n == Len(segs)
                            fs == fo.slices[k]
                        IN /\ fs.origin = OrNull2(raw[k], "origin", "iata_code")
                           /\ fs.destination
                                 = OrNull2(raw[k], "destination", "iata_code")
                           /\ fs.departure = OrNull(segs[1], "departing_at")
                           /\ fs.arrival = OrNull(segs[n], "arriving_at")
                           /\ fs.duration = OrNull(raw[k], "duration")
                           /\ fs.carrier
                                 = OrNull2(segs[1], "marketing_carrier", "name")
                           /\ Len(fs.connections) = n - 1
                           /\ \A i \in 1..(n - 1) :
                                /\ fs.connections[i].airport
                                      = OrNull2(segs[i], "destination", "iata_code")
                                /\ fs.connections[i].arrival
                                      = OrNull(segs[i], "arriving_at")
                                /\ fs.connections[i].departure
                                      = OrNull(segs[i + 1], "departing_at")
                                /\ fs.connections[i].duration
                                      = OrNull(segs[i + 1], "duration")

\* The number a character that is a digit stands for.
DigitValue(c) ==
    CASE c = "0" -> 0 [] c = "1" -> 1 [] c = "2" -> 2 [] c = "3" -> 3
      [] c = "4" -> 4 [] c = "5" -> 5 [] c = "6" -> 6 [] c = "7" -> 7
      [] c = "8" -> 8 [] c = "9" -> 9

\* The text is HH:MM: two digits that make an hour of 00 to 23, a colon, two
\* digits that make a minute of 00 to 59.
IsHHMM(text) ==
    LET s == TimeChars[text] IN
    /\ Len(s) = 5 /\ s[3] = ":"
    /\ \A i \in {1, 2, 4, 5} :
          s[i] \in {"0", "1", "2", "3", "4", "5", "6", "7", "8", "9"}
    /\ 10 * DigitValue(s[1]) + DigitValue(s[2]) <= 23
    /\ 10 * DigitValue(s[4]) + DigitValue(s[5]) <= 59

\* The bounds of the time ranges the caller of p gave.
BoundsGiven(p) ==
    UNION { { r[1].from_time, r[1].to_time } :
              r \in { tool[p].params.departure_time,
                      tool[p].params.arrival_time } \ {None} }

\* p runs one of the two search tools.
Searches(p) == Runs(p, "search_flights") \/ Runs(p, "search_multi_city")

\* C26 as stated: a search is accepted if and only if every bound of its time
\* ranges is HH:MM with an hour of two digits, 00 to 23, and a minute of two
\* digits, 00 to 59; with any other bound it fails with a validation error
\* before the handler is entered, and no request goes upstream.
C26_WindowPattern ==
    \A p \in Procs :
        Searches(p)
        => IF \A x \in BoundsGiven(p) : IsHHMM(x)
           THEN error[p].type # "ValidationError"
           ELSE /\ pc[p] = "failed" /\ error[p] = Raised("ValidationError")
                /\ ~InCreate(p) /\ sent[p] = <<>> /\ req[p] = NoValue

\* p is inside create_offer_request: it has entered and has not ended.
Pending(p) == InCreate(p) /\ pc[p] \in {"http", "sleep", "closing"}

\* The value is what create_offer_request is to return: a request_id and
\* offers, and nothing else.
IsResult(v) == DOMAIN v = {"request_id", "offers"}

\* C27: every invocation of create_offer_request that has entered ends, given
\* that every POST ends; it ends either with a result that has a request_id
\* and offers, and no error, or with an error of its upstream call and no
\* result, never with both and never with neither; and the retry loop never
\* hands the store a response that is not such a result.
C27_Terminates ==
    /\ \A p \in Procs : Pending(p) ~> Ended(p)
    /\ [](\A p \in Procs :
            /\ Ended(p)
               => \/ /\ pc[p] = "done" /\ error[p] = NoError
                     /\ result[p] # NoValue /\ IsResult(result[p])
                  \/ /\ pc[p] = "failed" /\ error[p] # NoError
                     /\ result[p] = NoValue /\ output[p] = NoValue
                     /\ replies[p] # <<>> /\ ~IsSuccess(Last(replies[p]))
            /\ (InCreate(p) /\ pc[p] = "closing")
               => response[p] # NoValue /\ IsResult(response[p])
            /\ \A k \in DOMAIN cache : IsResult(cache[k].response))

\* C27 witness: an invocation that retried after a read timeout has ended
\* with the result of a response that had no offers field: a request_id and
\* an empty list of offers.
C27_Witness ==
    \E p \in Procs :
        /\ pc[p] = "done" /\ InCreate(p) /\ Len(replies[p]) = 2
        /\ IsReadTimeout(replies[p][1])
        /\ "offers" \notin DOMAIN replies[p][2].body.value.data
        /\ IsResult(result[p]) /\ result[p].offers = <<>>

====
